---------------------------- MODULE Spec2Model ----------------------------
(***************************************************************************)
(* A model of sbx push: the API gateway (storyblok.Client.do), the         *)
(* per-space token bucket (limiter.tokenBucket) and the push run           *)
(* (push.Run with its worker pool, single-flight caches and destination).  *)
(*                                                                         *)
(* The specifications share the variables.  DoSpec runs one gateway        *)
(* operation; BucketSpec runs concurrent wait/nudge calls on one bucket    *)
(* against a clock; LimiterSpec runs concurrent calls on the buckets of    *)
(* several spaces; Spec runs push.Run (twice, for convergence); PoolSpec   *)
(* runs it once with more plans than workers; CountersSpec runs the        *)
(* concurrent operations of a run on their shared RetryCounters.           *)
(*                                                                         *)
(* Units: durations are milliseconds; rates (rps) are hundredths of a      *)
(* token per second; bucket tokens are 1/100000 of a token, so that        *)
(* elapsed-ms * rps is the exact refill.  Floating point is modelled as    *)
(* exact arithmetic.                                                       *)
(***************************************************************************)
EXTENDS Integers, Sequences, FiniteSets, TLC

(***************************************************************************)
(* Program constants.                                                      *)
(***************************************************************************)
\* NewClient: maxRetries: 5
MaxRetries == 5
\* NewClient: backoffStart: 250 * time.Millisecond
BackoffStart == 250
\* Client.do: Nudge*(spaceID, +0.02, 1, 7) and Nudge*(spaceID, -0.2, 1, 7)
NudgeUp == 2
NudgeDown == -20
NudgeMin == 100
NudgeMax == 700
\* push.Run: limiter.NewSpaceLimiter(7, 7, 7)
DefaultRPS == 700

Kinds == {"read", "write"}

VARIABLES
  \* ---- storyblok.Client.do, one operation
  doPc,        \* position in Client.do
  tokenOk,     \* c.token is not blank
  isWrite,     \* args.isWrite
  hasOut,      \* args.out != nil
  attempt,     \* loop variable
  backoff,     \* backoff, ms
  lastErr,     \* lastErr
  doResult,    \* the error do returns
  ctxDone,     \* ctx.Done() is closed
  sent,        \* HTTP requests put on the wire
  responses,   \* outcome of every httpClient.Do call, in order
  waits,       \* every completed backoff wait, ms, in order
  acquired,    \* tokens taken by this operation, per kind
  rps,         \* SpaceLimiter bucket rates, per kind
  rps0,        \* the rates when the operation started
  Status429,   \* RetryCounters
  Status5xx,
  Total,
  \* ---- limiter.tokenBucket, one bucket and its callers
  now,         \* the clock, ms
  ticks,       \* clock advances so far
  bkTokens,    \* b.tokens
  bkLast,      \* b.last
  bkRps,       \* b.rps
  bkCtxDone,   \* the callers' ctx.Done() is closed
  wPc,         \* position of each caller in wait
  wakeAt,      \* when each sleeping caller's timer fires
  wSlept,      \* whether the caller's current call has slept
  calls,       \* wait calls started, all callers
  grants,      \* every wait that returned nil: time, slept, tokens left
  canceled,    \* wait calls that returned ctx.Err()
  rpsLog,      \* the rate and every change of it, with its time
  nudges,      \* nudge calls so far
  \* ---- push.Run, its worker pool and the destination space
  run,         \* 1 for the first run of push.Run, 2 for the run repeated
  runPc,       \* position of Run
  opts,        \* Options and the files under opts.Dir
  dest,        \* the destination space
  after1,      \* the destination as the current run found it
  selected,    \* selectedComponents
  result,      \* Result
  runErr,      \* the error Run returns
  fetched,     \* state of each of the four list goroutines
  snap,        \* targetComponents, targetGroups, targetPresets, targetTags
  egDone,      \* egCtx.Done() of the current errgroup is closed
  egErr,       \* first error of the current errgroup
  groups,      \* groupCache.data
  tags,        \* tagCache.data
  components,  \* componentCache.data
  gFlight,     \* groupCache.single: key -> worker running the flight
  tFlight,     \* tagCache.single
  plans,       \* plans
  nextJob,     \* index of the plan the producer offers next
  jobsClosed,  \* close(jobs) has run
  wk,          \* the workers: position, job and locals of Process
  outcomes,    \* outcomes[job.index]
  faults,      \* gateway operations the destination has failed so far
  issued,      \* bag of gateway operations that sent their request
  failed,      \* bag of gateway operations that returned an error
  ensured,     \* identifiers returned by the ensure functions
  \* ---- limiter.SpaceLimiter, its buckets and its callers
  spaces,      \* sl.spaces: spaceID -> the indices of its read and write bucket
  buckets,     \* every tokenBucket that newBucket has made, in order
  made,        \* for which spaceID and kind each of them was made
  slPc,        \* the callers: position, operation and bucket
  slNow,       \* the clock, ms
  slTicks,     \* clock advances so far
  slCalls,     \* Wait* calls started
  slNudges,    \* Nudge* calls started
  \* ---- storyblok.RetryCounters under the concurrent operations of one run
  rcPc,        \* the operations: position in Client.do, attempt, last status
  rcSeen,      \* responses received so far by all operations, per class
  rcCalls      \* operations started

doVars == <<doPc, tokenOk, isWrite, hasOut, attempt, backoff, lastErr, doResult,
            ctxDone, sent, responses, waits, acquired, rps, rps0,
            Status429, Status5xx, Total>>

bkVars == <<now, ticks, calls, bkTokens, bkLast, bkRps, bkCtxDone, wPc, wakeAt,
            wSlept, grants, canceled, rpsLog, nudges>>

pushVars == <<run, runPc, opts, dest, after1, selected, result, runErr, fetched,
              snap, egDone, egErr, groups, tags, components, gFlight, tFlight,
              plans, nextJob, jobsClosed, wk, outcomes, faults, issued, failed,
              ensured>>

slVars == <<spaces, buckets, made, slPc, slNow, slTicks, slCalls, slNudges>>

rcVars == <<rcPc, rcSeen, rcCalls>>

vars == <<doVars, bkVars, pushVars, slVars, rcVars>>

\* what the steps of one part leave alone
doFrame == <<bkVars, pushVars, slVars, rcVars>>
bkFrame == <<doVars, pushVars, slVars, rcVars>>
pushFrame == <<doVars, bkVars, slVars, rcVars>>
slFrame == <<doVars, bkVars, pushVars, rcVars>>
\* the steps of the counted operations change the three counters only
rcFrame == <<doPc, tokenOk, isWrite, hasOut, attempt, backoff, lastErr, doResult,
             ctxDone, sent, responses, waits, acquired, rps, rps0,
             bkVars, pushVars, slVars>>

(***************************************************************************)
(* Errors.  `at` is the attempt (1-based) that produced the error.         *)
(***************************************************************************)
NoErr == [kind |-> "nil", status |-> 0, at |-> 0]
Pending == [kind |-> "pending", status |-> 0, at |-> 0]
ErrNoToken == [kind |-> "notoken", status |-> 0, at |-> 0]
CtxErr == [kind |-> "canceled", status |-> 0, at |-> 0]
TransportErr(n) == [kind |-> "transport", status |-> 0, at |-> n]
DecodeErr(n) == [kind |-> "decode", status |-> 0, at |-> n]
APIError(s, n) == [kind |-> "api", status |-> s, at |-> n]

\* The status codes the destination answers with, and the response bodies.
StatusCodes == {200, 302, 400, 429, 500}
Bodies == {"json", "empty", "garbage"}
Transport == [type |-> "transport", status |-> 0, body |-> "none"]
Http(s, b) == [type |-> "http", status |-> s, body |-> b]
Outcomes ==
  {Transport}
    \cup {Http(s, b) : s \in {c \in StatusCodes : c >= 200 /\ c < 300}, b \in Bodies}
    \cup {Http(s, "json") : s \in {c \in StatusCodes : c < 200 \/ c >= 300}}

\* Initial rates of an operation that starts in the middle of a run.
RpsInit == {NudgeMin, NudgeMin + 10, NudgeMax}

\* a do that waits on the read bucket for every operation
KindRead(w) == "read"

\* Client.do: WaitWrite for args.isWrite, WaitRead otherwise
Kind(w) == IF w THEN "write" ELSE "read"

\* the operations of the Client
Operations ==
  {"DeletePreset", "ListComponents", "GetComponent", "CreateComponent",
   "UpdateComponent", "ListComponentGroups", "CreateComponentGroup", "ListPresets",
   "CreatePreset", "UpdatePreset", "ListInternalTags", "CreateInternalTag",
   "GetSpaceOptions"}

\* the requestArgs each operation calls do with: method and isWrite
requestArgs(op) ==
  CASE op = "DeletePreset" -> [method |-> "DELETE", isWrite |-> TRUE]
    [] op \in {"CreateComponent", "CreateComponentGroup", "CreatePreset",
               "CreateInternalTag"} -> [method |-> "POST", isWrite |-> TRUE]
    [] op \in {"UpdateComponent", "UpdatePreset"} -> [method |-> "PUT", isWrite |-> TRUE]
    [] OTHER -> [method |-> "GET", isWrite |-> FALSE]

(***************************************************************************)
(* limiter.SpaceLimiter.nudge: r := rps + delta, clamped to [min, max].    *)
(***************************************************************************)
nudgeNoCeiling(r, delta, min, max) ==
  IF r + delta < min THEN min ELSE r + delta

nudgeNoFloor(r, delta, min, max) ==
  LET r1 == r + delta IN IF r1 > max THEN max ELSE r1

nudge(r, delta, min, max) ==
  LET r1 == r + delta
      r2 == IF r1 < min THEN min ELSE r1
  IN  IF r2 > max THEN max ELSE r2

(***************************************************************************)
(* storyblok/errors.go                                                     *)
(***************************************************************************)
IsRateLimited(err) == err.kind = "api" /\ err.status = 429

\* Client.do: resp.StatusCode >= 500
IsServerErrorFrom400(s) == s >= 400

IsServerError(s) == s >= 500

\* Client.do: the loop condition attempt < c.maxRetries
MoreAttemptsInclusive(n) == n <= MaxRetries

MoreAttempts(n) == n < MaxRetries

\* Client.do: the check after the response closure that returns a 4xx at once
IsTerminal4xx(err) ==
  err.kind = "api" /\ err.status >= 400 /\ err.status < 500 /\ err.status # 429

\* RetryCounters.RecordRateLimit, as the new (Status429, Total)
RecordRateLimitNoCount(c) == c

RecordRateLimit(c) == [c EXCEPT !.s429 = @ + 1, !.total = @ + 1]

\* RetryCounters.RecordServerError
RecordServerError(c) == [c EXCEPT !.s5xx = @ + 1, !.total = @ + 1]

(***************************************************************************)
(* The response closure of Client.do (func() { defer resp.Body.Close() ... *)
(* }()): from the response o of attempt n and the state st = [lastErr,     *)
(* backoff, rps, cnt] to the state after the closure.                      *)
(***************************************************************************)
Closure(o, n, st, w, out) ==
  IF o.status >= 200 /\ o.status < 300
  THEN IF out /\ o.body = "garbage"
       THEN [st EXCEPT !.lastErr = DecodeErr(n)]
       ELSE [st EXCEPT !.rps[Kind(w)] = nudge(@, NudgeUp, NudgeMin, NudgeMax),
                       !.lastErr = NoErr]
  ELSE LET err == APIError(o.status, n) IN
       IF IsRateLimited(err)
       THEN [st EXCEPT !.lastErr = err,
                       !.rps[Kind(w)] = nudge(@, NudgeDown, NudgeMin, NudgeMax),
                       !.cnt = RecordRateLimit(@)]
       ELSE IF IsServerError(o.status)
       THEN [st EXCEPT !.lastErr = err, !.cnt = RecordServerError(@)]
       ELSE [st EXCEPT !.lastErr = err, !.backoff = 0]

(***************************************************************************)
(* Client.do, one step per suspension point.                               *)
(***************************************************************************)
DoInitVars ==
  /\ doPc = "start"
  /\ tokenOk \in BOOLEAN
  /\ isWrite \in {requestArgs(op).isWrite : op \in Operations}
  /\ hasOut \in BOOLEAN
  /\ attempt = 0
  /\ backoff = 0
  /\ lastErr = NoErr
  /\ doResult = Pending
  /\ ctxDone = FALSE
  /\ sent = 0
  /\ responses = <<>>
  /\ waits = <<>>
  /\ acquired = [k \in Kinds |-> 0]
  /\ rps \in [Kinds -> RpsInit]
  /\ rps0 = rps
  /\ Status429 = 0
  /\ Status5xx = 0
  /\ Total = 0

\* if c.token == "" { return error }; backoff := c.backoffStart
DoStart ==
  /\ UNCHANGED doFrame
  /\ doPc = "start"
  /\ IF tokenOk
     THEN /\ doPc' = "loop"
          /\ backoff' = BackoffStart
          /\ UNCHANGED doResult
     ELSE /\ doPc' = "done"
          /\ doResult' = ErrNoToken
          /\ UNCHANGED backoff
  /\ UNCHANGED <<tokenOk, isWrite, hasOut, attempt, lastErr, ctxDone, sent,
                 responses, waits, acquired, rps, rps0, Status429, Status5xx, Total>>

\* for attempt := 0; attempt < c.maxRetries; attempt++ { ... }; return lastErr
DoLoop ==
  /\ UNCHANGED doFrame
  /\ doPc = "loop"
  /\ IF MoreAttempts(attempt)
     THEN doPc' = "wait" /\ UNCHANGED doResult
     ELSE doPc' = "done" /\ doResult' = lastErr
  /\ UNCHANGED <<tokenOk, isWrite, hasOut, attempt, backoff, lastErr, ctxDone, sent,
                 responses, waits, acquired, rps, rps0, Status429, Status5xx, Total>>

\* a limiter wait that does not look at the context
DoWaitTokenNoCtx ==
  /\ UNCHANGED doFrame
  /\ doPc = "wait"
  /\ doPc' = "send"
  /\ acquired' = [acquired EXCEPT ![Kind(isWrite)] = @ + 1]
  /\ UNCHANGED <<tokenOk, isWrite, hasOut, attempt, backoff, lastErr, doResult, ctxDone,
                 sent, responses, waits, rps, rps0, Status429, Status5xx, Total>>

\* c.limiter.WaitWrite / WaitRead: the context's error when it is done,
\* otherwise one token of the operation's bucket.
DoWaitToken ==
  /\ UNCHANGED doFrame
  /\ doPc = "wait"
  /\ IF ctxDone
     THEN /\ doPc' = "done"
          /\ doResult' = CtxErr
          /\ UNCHANGED acquired
     ELSE /\ doPc' = "send"
          /\ acquired' = [acquired EXCEPT ![Kind(isWrite)] = @ + 1]
          /\ UNCHANGED doResult
  /\ UNCHANGED <<tokenOk, isWrite, hasOut, attempt, backoff, lastErr, ctxDone, sent,
                 responses, waits, rps, rps0, Status429, Status5xx, Total>>

\* c.httpClient.Do(req): the request goes out unless the context is done
\* already, in which case the transport fails without sending.
DoSend ==
  /\ UNCHANGED doFrame
  /\ doPc = "send"
  /\ IF ctxDone
     THEN /\ responses' = Append(responses, Transport)
          /\ lastErr' = TransportErr(attempt + 1)
          /\ doPc' = "backoff"
          /\ UNCHANGED sent
     ELSE /\ sent' = sent + 1
          /\ doPc' = "inflight"
          /\ UNCHANGED <<responses, lastErr>>
  /\ UNCHANGED <<tokenOk, isWrite, hasOut, attempt, backoff, doResult, ctxDone,
                 waits, acquired, rps, rps0, Status429, Status5xx, Total>>

\* The round trip ends with outcome o; the closure runs and do decides
\* between returning and backing off.
DoRespond(o) ==
  /\ UNCHANGED doFrame
  /\ doPc = "inflight"
  /\ responses' = Append(responses, o)
  /\ IF o.type = "transport"
     THEN /\ lastErr' = TransportErr(attempt + 1)
          /\ doPc' = "backoff"
          /\ UNCHANGED <<backoff, rps, Status429, Status5xx, Total, doResult>>
     ELSE LET st == Closure(o, attempt + 1,
                            [lastErr |-> lastErr, backoff |-> backoff, rps |-> rps,
                             cnt |-> [s429 |-> Status429, s5xx |-> Status5xx,
                                      total |-> Total]],
                            isWrite, hasOut)
          IN  /\ lastErr' = st.lastErr
              /\ backoff' = st.backoff
              /\ rps' = st.rps
              /\ Status429' = st.cnt.s429
              /\ Status5xx' = st.cnt.s5xx
              /\ Total' = st.cnt.total
              /\ IF st.lastErr = NoErr
                 THEN doPc' = "done" /\ doResult' = NoErr
                 ELSE IF IsTerminal4xx(st.lastErr)
                 THEN doPc' = "done" /\ doResult' = st.lastErr
                 ELSE IF st.backoff = 0
                 THEN doPc' = "done" /\ doResult' = st.lastErr
                 ELSE doPc' = "backoff" /\ UNCHANGED doResult
  /\ UNCHANGED <<tokenOk, isWrite, hasOut, attempt, ctxDone, sent, waits,
                 acquired, rps0>>

\* select { case <-time.After(backoff): backoff *= 2 ... }, then attempt++
DoBackoffElapsed ==
  /\ UNCHANGED doFrame
  /\ doPc = "backoff"
  /\ waits' = Append(waits, backoff)
  /\ backoff' = backoff * 2
  /\ attempt' = attempt + 1
  /\ doPc' = "loop"
  /\ UNCHANGED <<tokenOk, isWrite, hasOut, lastErr, doResult, ctxDone, sent,
                 responses, acquired, rps, rps0, Status429, Status5xx, Total>>

\* select { ... case <-ctx.Done(): return ctx.Err() }
DoBackoffCancelled ==
  /\ UNCHANGED doFrame
  /\ doPc = "backoff"
  /\ ctxDone
  /\ doPc' = "done"
  /\ doResult' = CtxErr
  /\ UNCHANGED <<tokenOk, isWrite, hasOut, attempt, backoff, lastErr, ctxDone, sent,
                 responses, waits, acquired, rps, rps0, Status429, Status5xx, Total>>

\* The caller's context is cancelled (deadline or abort).
DoCancel ==
  /\ UNCHANGED doFrame
  /\ doPc \notin {"start", "done"}
  /\ ~ctxDone
  /\ ctxDone' = TRUE
  /\ UNCHANGED <<doPc, tokenOk, isWrite, hasOut, attempt, backoff, lastErr, doResult,
                 sent, responses, waits, acquired, rps, rps0,
                 Status429, Status5xx, Total>>

DoNext ==
  \/ DoStart
  \/ DoLoop
  \/ DoWaitToken
  \/ DoSend
  \/ \E o \in Outcomes : DoRespond(o)
  \/ DoBackoffElapsed
  \/ DoBackoffCancelled
  \/ DoCancel

(***************************************************************************)
(* limiter.tokenBucket                                                     *)
(***************************************************************************)
\* bounds of the bucket model
Burst == 2
NCallers == 2
MaxCalls == 3
MaxTicks == 2
MaxNudges == 1

\* wait: if wait < 5*time.Millisecond { wait = 5 * time.Millisecond }
MinSleep == 5
\* one token, in bucket units (ms * hundredths per second)
OneToken == 1000 * 100
Callers == 1..NCallers
\* the amounts by which the clock advances in one step, ms
TickSteps == {MinSleep, 142}
\* nudge(delta, min, max) calls
NudgeCalls == {<<NudgeUp, NudgeMin, NudgeMax>>, <<NudgeDown, NudgeMin, NudgeMax>>,
               <<-300, 200, 300>>}

\* newBucket(rps, burst)
newBucket(r, burst, t) == [rps |-> r, burst |-> burst, tokens |-> burst, last |-> t]

\* tokenBucket.refillLocked
refillNoCap(b, t) ==
  LET delta == (t - b.last) * b.rps
  IN  IF delta <= 0 THEN b
      ELSE [b EXCEPT !.tokens = b.tokens + delta, !.last = t]

refillLocked(b, t) ==
  LET delta == (t - b.last) * b.rps
  IN  IF delta <= 0 THEN b
      ELSE [b EXCEPT !.tokens = IF b.tokens + delta > b.burst THEN b.burst
                                 ELSE b.tokens + delta,
                     !.last = t]

\* wait: if b.tokens >= 1
HasTokenAnyFraction(b) == b.tokens > 0

\* a wait that takes a token whatever the bucket holds
HasTokenAlways(b) == TRUE

HasToken(b) == b.tokens >= OneToken

\* wait: the sleep for the missing fraction, truncated, at least 5 ms
SleepFor(needed, r) ==
  LET r1 == IF r <= 0 THEN 100 ELSE r
      w == needed \div r1
  IN  IF w < MinSleep THEN MinSleep ELSE w

Bucket == [rps |-> bkRps, burst |-> Burst * OneToken, tokens |-> bkTokens,
           last |-> bkLast]

BkInit ==
  LET b == newBucket(DefaultRPS, Burst * OneToken, 0) IN
  /\ now = 0
  /\ ticks = 0
  /\ bkTokens = b.tokens
  /\ bkLast = b.last
  /\ bkRps = b.rps
  /\ bkCtxDone = FALSE
  /\ wPc = [c \in Callers |-> "idle"]
  /\ wakeAt = [c \in Callers |-> 0]
  /\ wSlept = [c \in Callers |-> FALSE]
  /\ calls = 0
  /\ grants = <<>>
  /\ canceled = 0
  /\ rpsLog = <<[t |-> 0, r |-> b.rps]>>
  /\ nudges = 0

\* the bucket part of the state while another specification runs
BkIdle ==
  /\ now = 0
  /\ ticks = 0
  /\ bkTokens = 0
  /\ bkLast = 0
  /\ bkRps = 0
  /\ bkCtxDone = FALSE
  /\ wPc = <<>>
  /\ wakeAt = <<>>
  /\ wSlept = <<>>
  /\ calls = 0
  /\ grants = <<>>
  /\ canceled = 0
  /\ rpsLog = <<>>
  /\ nudges = 0

\* a wait that does not look at its context at the top of the loop
LoopTopNoCtx(c) ==
  /\ wPc' = [wPc EXCEPT ![c] = "lock"]
  /\ UNCHANGED canceled

\* wait, the top of the loop: select { case <-ctx.Done(): return ctx.Err();
\* default: }; next comes the locked section
LoopTop(c) ==
  IF bkCtxDone
  THEN /\ wPc' = [wPc EXCEPT ![c] = "idle"]
       /\ canceled' = canceled + 1
  ELSE /\ wPc' = [wPc EXCEPT ![c] = "lock"]
       /\ UNCHANGED canceled

\* a caller calls wait(ctx)
WaitCall(c) ==
  /\ UNCHANGED bkFrame
  /\ wPc[c] = "idle"
  /\ calls < MaxCalls
  /\ calls' = calls + 1
  /\ wSlept' = [wSlept EXCEPT ![c] = FALSE]
  /\ LoopTop(c)
  /\ UNCHANGED <<now, ticks, bkTokens, bkLast, bkRps, bkCtxDone, wakeAt,
                 grants, rpsLog, nudges>>

\* b.mu.Lock(); now := time.Now(); b.refillLocked(now); take a token and
\* return nil, or compute the sleep and start the timer
WaitLocked(c) ==
  /\ UNCHANGED bkFrame
  /\ wPc[c] = "lock"
  /\ LET b == refillLocked(Bucket, now) IN
     /\ bkLast' = b.last
     /\ IF HasToken(b)
        THEN /\ bkTokens' = b.tokens - OneToken
             /\ grants' = Append(grants, [t |-> now, slept |-> wSlept[c],
                                          left |-> b.tokens - OneToken])
             /\ wPc' = [wPc EXCEPT ![c] = "idle"]
             /\ UNCHANGED <<wakeAt, wSlept>>
        ELSE /\ bkTokens' = b.tokens
             /\ wakeAt' = [wakeAt EXCEPT ![c] = now + SleepFor(OneToken - b.tokens, b.rps)]
             /\ wSlept' = [wSlept EXCEPT ![c] = TRUE]
             /\ wPc' = [wPc EXCEPT ![c] = "sleep"]
             /\ UNCHANGED grants
  /\ UNCHANGED <<now, ticks, calls, bkRps, bkCtxDone, canceled, rpsLog, nudges>>

\* select { case <-t.C: ... } and around the loop
WaitTimer(c) ==
  /\ UNCHANGED bkFrame
  /\ wPc[c] = "sleep"
  /\ now >= wakeAt[c]
  /\ LoopTop(c)
  /\ UNCHANGED <<now, ticks, calls, bkTokens, bkLast, bkRps, bkCtxDone, wakeAt,
                 wSlept, grants, rpsLog, nudges>>

\* select { ... case <-ctx.Done(): t.Stop(); return ctx.Err() }
WaitCancelled(c) ==
  /\ UNCHANGED bkFrame
  /\ wPc[c] = "sleep"
  /\ bkCtxDone
  /\ wPc' = [wPc EXCEPT ![c] = "idle"]
  /\ canceled' = canceled + 1
  /\ UNCHANGED <<now, ticks, calls, bkTokens, bkLast, bkRps, bkCtxDone, wakeAt,
                 wSlept, grants, rpsLog, nudges>>

\* SpaceLimiter.nudge on this bucket
Nudge(call) ==
  /\ UNCHANGED bkFrame
  /\ nudges < MaxNudges
  /\ nudges' = nudges + 1
  /\ bkRps' = nudge(bkRps, call[1], call[2], call[3])
  /\ rpsLog' = Append(rpsLog, [t |-> now, r |-> bkRps'])
  /\ UNCHANGED <<now, ticks, calls, bkTokens, bkLast, bkCtxDone, wPc, wakeAt,
                 wSlept, grants, canceled>>

\* time passes
Tick(d) ==
  /\ UNCHANGED bkFrame
  /\ ticks < MaxTicks
  /\ ticks' = ticks + 1
  /\ now' = now + d
  /\ UNCHANGED <<calls, bkTokens, bkLast, bkRps, bkCtxDone, wPc, wakeAt, wSlept,
                 grants, canceled, rpsLog, nudges>>

\* the callers' context is cancelled
BkCancel ==
  /\ UNCHANGED bkFrame
  /\ ~bkCtxDone
  /\ \E c \in Callers : wPc[c] # "idle"
  /\ bkCtxDone' = TRUE
  /\ UNCHANGED <<now, ticks, calls, bkTokens, bkLast, bkRps, wPc, wakeAt, wSlept,
                 grants, canceled, rpsLog, nudges>>

BkNext ==
  \/ \E c \in Callers : WaitCall(c)
  \/ \E c \in Callers : WaitLocked(c)
  \/ \E c \in Callers : WaitTimer(c)
  \/ \E c \in Callers : WaitCancelled(c)
  \/ \E call \in NudgeCalls : Nudge(call)
  \/ \E d \in TickSteps : Tick(d)
  \/ BkCancel

(***************************************************************************)
(* push.Run: the desired set, the destination and the pure functions.      *)
(*                                                                         *)
(* Names are strings; strings.ToLower and strings.TrimSpace are tabulated  *)
(* on the names the inputs use.  Identifiers (group UUIDs, tag, component  *)
(* and preset IDs) are positive integers handed out by the destination; 0  *)
(* is the empty UUID / the zero ID.  A component_group_whitelist entry is  *)
(* [n, u]: the raw name n, or the UUID u it was rewritten to.              *)
(***************************************************************************)
MaxFaults == 1

\* push.Run: workerCount := 4
WorkerLimit == 4

ToLower(s) ==
  CASE s = "Hero" -> "hero"
    [] s = "Layout" -> "layout"
    [] s = "Layout " -> "layout "
    [] s = "T1" -> "t1"
    [] s = "Exact" -> "exact"
    [] s = "Dark" -> "dark"
    [] s = "Light" -> "light"
    [] OTHER -> s

TrimSpace(s) ==
  CASE s = "Layout " -> "Layout"
    [] s = "layout " -> "layout"
    [] s = " " -> ""
    [] s = "card " -> "card"
    [] OTHER -> s

\* byte order of the names, for sort.Strings
Rank(s) ==
  CASE s = "Hero" -> 1
    [] s = "card" -> 2
    [] s = "card " -> 3
    [] s = "hero" -> 4
    [] s = "teaser" -> 5
    [] OTHER -> 0

NoComponent ==
  [id |-> 0, name |-> "", group |-> "", uuid |-> 0, wl |-> <<>>, tags |-> <<>>,
   ids |-> <<>>, preset |-> 0]

\* a component file: name, component_group_name, the whitelist of its schema,
\* internal_tags_list and preset_id
ComponentFile(name, group, whitelist, tagNames, presetID) ==
  [NoComponent EXCEPT !.name = name, !.group = group,
                      !.wl = [i \in 1..Len(whitelist) |-> [n |-> whitelist[i], u |-> 0]],
                      !.tags = tagNames, !.preset = presetID]

\* a preset file: id, name and the component it names
PresetFile(id, name, comp) == [id |-> id, name |-> name, comp |-> comp, cid |-> 0]

\* two components in one group, named in two spellings, with the same tag;
\* one of them has a default preset
OptsShared ==
  [comps |-> <<ComponentFile("card", "Layout ", <<>>, <<"t1">>, 0),
               ComponentFile("hero", "layout", <<>>, <<"t1">>, 70)>>,
   presets |-> <<PresetFile(70, "default", "hero")>>,
   names |-> <<>>, all |-> TRUE, mode |-> "exact", dry |-> FALSE]

\* a component in a group, and another whose schema whitelists that group,
\* an empty entry and a name that is no group, and whose tags are one name
\* in two spellings, a blank and a repetition
OptsWhitelist ==
  [comps |-> <<ComponentFile("card", "layout", <<>>, <<>>, 0),
               ComponentFile("teaser", "", <<"layout", "", "other">>,
                             <<"T1", " ", "t1", "t1">>, 0)>>,
   presets |-> <<>>,
   names |-> <<>>, all |-> TRUE, mode |-> "exact", dry |-> FALSE]

\* one component name in two spellings, selected by name
OptsTwice ==
  [comps |-> <<ComponentFile("Hero", "", <<>>, <<>>, 0),
               ComponentFile("hero", "", <<>>, <<>>, 0)>>,
   presets |-> <<>>,
   names |-> <<"nope", "hero", "none">>, all |-> FALSE, mode |-> "Exact", dry |-> FALSE]

OptsBadMode == [OptsTwice EXCEPT !.mode = "regex"]
OptsNoNames == [OptsTwice EXCEPT !.names = <<>>]

\* five components without group, tags or presets: more plans than workers
OptsMany ==
  [comps |-> <<ComponentFile("u", "", <<>>, <<>>, 0),
               ComponentFile("v", "", <<>>, <<>>, 0),
               ComponentFile("w", "", <<>>, <<>>, 0),
               ComponentFile("x", "", <<>>, <<>>, 0),
               ComponentFile("y", "", <<>>, <<>>, 0)>>,
   presets |-> <<>>,
   names |-> <<>>, all |-> TRUE, mode |-> "exact", dry |-> FALSE]

\* OptsShared with --dry-run
OptsDryRun == [OptsShared EXCEPT !.dry = TRUE]

\* a component whose name ends in a space, with a default preset and two
\* presets of one name in two spellings; pushed to DestOld
OptsSpaced ==
  [comps |-> <<ComponentFile("card ", "", <<>>, <<>>, 80)>>,
   presets |-> <<PresetFile(80, "Dark", "card "), PresetFile(81, "Light", "card "),
                 PresetFile(82, "light", "card ")>>,
   names |-> <<>>, all |-> TRUE, mode |-> "exact", dry |-> FALSE]

OptsSet == {OptsShared, OptsWhitelist, OptsTwice, OptsBadMode, OptsNoNames, OptsDryRun}

\* a destination that has the five components of OptsMany
DestMany ==
  [components |-> [i \in 1..Len(OptsMany.comps) |-> [OptsMany.comps[i] EXCEPT !.id = i]],
   groups |-> <<>>, presets |-> <<>>, tags |-> <<>>, next |-> Len(OptsMany.comps) + 1]

\* a destination with a component card, its preset dark, and a component, a
\* preset, a group and a tag that no desired set names
DestOld ==
  [components |-> <<[NoComponent EXCEPT !.id = 1, !.name = "old"],
                    [NoComponent EXCEPT !.id = 2, !.name = "card"]>>,
   groups |-> <<[name |-> "legacy", uuid |-> 5]>>,
   presets |-> <<[id |-> 3, name |-> "dark", comp |-> "card", cid |-> 2],
                 [id |-> 4, name |-> "dark", comp |-> "old", cid |-> 1]>>,
   tags |-> <<[name |-> "oldtag", id |-> 6]>>,
   next |-> 7]

DestEmpty ==
  [components |-> <<>>, groups |-> <<>>, presets |-> <<>>, tags |-> <<>>, next |-> 1]

Lists == {"components", "groups", "presets", "tags"}

EmptyMap == [x \in {} |-> 0]

MapSet(m, k, v) == [x \in DOMAIN m \cup {k} |-> IF x = k THEN v ELSE m[x]]

MapDelete(m, k) == [x \in DOMAIN m \ {k} |-> m[x]]

BagCount(b, e) == IF e \in DOMAIN b THEN b[e] ELSE 0

BagAdd(b, e) == MapSet(b, e, BagCount(b, e) + 1)

RECURSIVE KeepIdx(_, _, _)
\* the elements of s[1..n] whose index is in I, in order
KeepIdx(s, I, n) ==
  IF n = 0 THEN <<>>
  ELSE IF n \in I THEN Append(KeepIdx(s, I, n - 1), s[n])
  ELSE KeepIdx(s, I, n - 1)

(***************************************************************************)
(* internal/matcher                                                        *)
(***************************************************************************)
validModes == {"exact", "prefix", "glob"}

\* a ValidateMode that accepts every mode
ValidateModeAny(mode) == TRUE

ValidateMode(mode) == ToLower(mode) \in validModes

\* strings.HasPrefix and filepath.Match on the names the inputs use
HasPrefix(value, prefix) ==
  value = prefix \/ <<value, prefix>> \in {<<"hero", "he">>, <<"teaser", "te">>}

Match(pattern, value) ==
  (pattern \notin {"h*", "*"} /\ pattern = value)
    \/ <<pattern, value>> \in {<<"h*", "hero">>, <<"*", "hero">>, <<"*", "card">>,
                               <<"*", "teaser">>}

matches(value, selector, mode) ==
  CASE mode = "exact" -> value = selector
    [] mode = "prefix" -> HasPrefix(value, selector)
    [] mode = "glob" -> Match(selector, value)
    [] OTHER -> FALSE

\* a Filter that reports no selector as missing
FilterNoMissing(items, selectors, mode0, all) ==
  [selected |-> IF all THEN items
                ELSE KeepIdx(items,
                             {j \in 1..Len(items) : \E i \in 1..Len(selectors) :
                                matches(ToLower(items[j].name),
                                        ToLower(TrimSpace(selectors[i])), ToLower(mode0))},
                             Len(items)),
   missing |-> <<>>, err |-> "nil"]

\* Filter: [selected, missing, err]
Filter(items, selectors, mode0, all) ==
  LET mode == ToLower(mode0)
      norm == [i \in 1..Len(selectors) |-> ToLower(TrimSpace(selectors[i]))]
      Hit(i, j) == norm[i] # "" /\ matches(ToLower(items[j].name), norm[i], mode)
      matched == {j \in 1..Len(items) : \E i \in 1..Len(selectors) : Hit(i, j)}
      first == {j \in matched : \A k \in 1..(j - 1) : items[k].name # items[j].name}
      unhit == {i \in 1..Len(selectors) : \A j \in 1..Len(items) : ~Hit(i, j)}
  IN  IF ~ValidateMode(mode) THEN [selected |-> <<>>, missing |-> <<>>, err |-> "mode"]
      ELSE IF all THEN [selected |-> items, missing |-> <<>>, err |-> "nil"]
      ELSE IF Len(selectors) = 0
        THEN [selected |-> <<>>, missing |-> <<>>, err |-> "noselectors"]
      ELSE [selected |-> KeepIdx(items, first, Len(items)),
            missing |-> KeepIdx(selectors, unhit, Len(selectors)),
            err |-> "nil"]

(***************************************************************************)
(* The caches.                                                             *)
(***************************************************************************)
\* a groupCache.Set that stores nothing
groupCacheSetNothing(data, name, uuid) == data

groupCacheSet(data, name, uuid) ==
  IF name = "" \/ uuid = 0 THEN data
  ELSE MapSet(data, ToLower(TrimSpace(name)), uuid)

groupCacheLookup(data, name) ==
  LET key == ToLower(TrimSpace(name))
  IN  IF key \in DOMAIN data THEN [value |-> data[key], ok |-> TRUE]
      ELSE [value |-> 0, ok |-> FALSE]

tagCacheSet(data, name, id) ==
  IF name = "" \/ id <= 0 \/ TrimSpace(name) = "" THEN data
  ELSE MapSet(data, TrimSpace(name), id)

tagCacheGet(data, name) ==
  LET key == TrimSpace(name)
  IN  IF key # "" /\ key \in DOMAIN data THEN [value |-> data[key], ok |-> TRUE]
      ELSE [value |-> 0, ok |-> FALSE]

componentCacheSet(data, name, component) ==
  LET key == ToLower(TrimSpace(name))
  IN  IF key = "" THEN data ELSE MapSet(data, key, component)

\* a componentCache.Get that looks the name up as it is written
componentCacheGetExact(data, name) ==
  IF name \in DOMAIN data THEN [component |-> data[name], ok |-> TRUE]
  ELSE [component |-> NoComponent, ok |-> FALSE]

componentCacheGet(data, name) ==
  LET key == ToLower(TrimSpace(name))
  IN  IF key \in DOMAIN data THEN [component |-> data[key], ok |-> TRUE]
      ELSE [component |-> NoComponent, ok |-> FALSE]

\* a componentCache.Replace that deletes the old key and stores nothing
componentCacheReplaceDeleteOnly(data, oldName, newName, component) ==
  LET oldKey == ToLower(TrimSpace(oldName))
  IN  IF oldKey # "" THEN MapDelete(data, oldKey) ELSE data

componentCacheReplace(data, oldName, newName, component) ==
  LET oldKey == ToLower(TrimSpace(oldName))
      newKey == ToLower(TrimSpace(newName))
      removed == IF oldKey # "" THEN MapDelete(data, oldKey) ELSE data
  IN  IF newKey # "" THEN MapSet(removed, newKey, component) ELSE removed

RECURSIVE SeedGroups(_, _)
\* Run: for _, g := range targetGroups { groupCache.Set(g.Name, g.UUID) }
SeedGroups(list, n) ==
  IF n = 0 THEN EmptyMap
  ELSE groupCacheSet(SeedGroups(list, n - 1), list[n].name, list[n].uuid)

RECURSIVE SeedComponents(_, _)
SeedComponents(list, n) ==
  IF n = 0 THEN EmptyMap
  ELSE componentCacheSet(SeedComponents(list, n - 1), list[n].name, list[n])

RECURSIVE SeedTags(_, _)
SeedTags(list, n) ==
  IF n = 0 THEN EmptyMap
  ELSE tagCacheSet(SeedTags(list, n - 1), list[n].name, list[n].id)

(***************************************************************************)
(* Planning.                                                               *)
(***************************************************************************)
\* buildPresetMap and presetsForComponent: the preset files that name the
\* component, compared in lower case
presetsForComponent(component, presetFiles) ==
  KeepIdx(presetFiles,
          {i \in 1..Len(presetFiles) :
             presetFiles[i].comp # ""
               /\ ToLower(presetFiles[i].comp) = ToLower(component.name)},
          Len(presetFiles))

\* Run: the plan of every selected component, from the component cache
BuildPlans(sel, cache, presetFiles) ==
  [i \in 1..Len(sel) |->
     LET hit == componentCacheGet(cache, sel[i].name)
     IN  [index |-> i, component |-> sel[i], existing |-> hit.component,
          exists |-> hit.ok, presets |-> presetsForComponent(sel[i], presetFiles)]]

\* a dry run that builds the plans all the same
PlansAlways(dry, sel, cache, presetFiles) == BuildPlans(sel, cache, presetFiles)

\* Run: in a dry run every selected component is logged and skipped
Plans(dry, sel, cache, presetFiles) ==
  IF dry THEN <<>> ELSE BuildPlans(sel, cache, presetFiles)

RECURSIVE DryRunPresets(_, _, _)
\* Run, dry run: result.PresetsSynced += len(componentPresets), over the
\* first n selected components
DryRunPresets(sel, presetFiles, n) ==
  IF n = 0 THEN 0
  ELSE DryRunPresets(sel, presetFiles, n - 1) + Len(presetsForComponent(sel[n], presetFiles))

\* the names of the worker goroutines: one more than Run may start
Workers == 1..(WorkerLimit + 1)

\* a pool of one worker per plan
workerCountNoLimit(n) == IF n < 1 THEN 1 ELSE n

workerCount(n) ==
  LET c == IF n < WorkerLimit THEN n ELSE WorkerLimit
  IN  IF c < 1 THEN 1 ELSE c

(***************************************************************************)
(* Process: the pure parts.                                                *)
(***************************************************************************)
\* mapSchemaGroupWhitelist: empty entries are dropped, names the cache knows
\* become UUIDs, the others pass through
mapSchemaGroupWhitelist(whitelist, data) ==
  LET kept == KeepIdx(whitelist,
                      {i \in 1..Len(whitelist) : whitelist[i].n # "" \/ whitelist[i].u # 0},
                      Len(whitelist))
  IN  [i \in 1..Len(kept) |->
         LET hit == groupCacheLookup(data, kept[i].n)
         IN  IF kept[i].u = 0 /\ hit.ok THEN [n |-> "", u |-> hit.value] ELSE kept[i]]

defaultPresetName(component, presets) ==
  LET I == {i \in 1..Len(presets) : presets[i].id = component.preset}
  IN  IF component.preset = 0 \/ I = {} THEN ""
      ELSE ToLower(presets[CHOOSE i \in I : \A j \in I : i <= j].name)

\* findPresetByName: [preset, ok], the first preset of that name
findPresetByName(presets, name) ==
  LET I == {i \in 1..Len(presets) : ToLower(presets[i].name) = ToLower(name)}
  IN  IF I = {} THEN [preset |-> PresetFile(0, "", ""), ok |-> FALSE]
      ELSE [preset |-> presets[CHOOSE i \in I : \A j \in I : i <= j], ok |-> TRUE]

RECURSIVE ExistingPresetsOfAll(_, _, _)
\* an existingPresets that takes the presets of every component
ExistingPresetsOfAll(list, id, n) ==
  IF n = 0 THEN EmptyMap
  ELSE MapSet(ExistingPresetsOfAll(list, id, n - 1), ToLower(list[n].name), list[n])

RECURSIVE ExistingPresets(_, _, _)
\* updateComponent: existingPresets, from the presets of the snapshot that
\* belong to the component, by lower-case name
ExistingPresets(list, id, n) ==
  IF n = 0 THEN EmptyMap
  ELSE IF list[n].cid = id
    THEN MapSet(ExistingPresets(list, id, n - 1), ToLower(list[n].name), list[n])
  ELSE ExistingPresets(list, id, n - 1)

(***************************************************************************)
(* The destination: what a request that it accepts does, and returns.      *)
(* Fields that the JSON encoding omits when zero (component_group_uuid,    *)
(* internal_tag_ids, preset_id) leave the stored value as it is.           *)
(***************************************************************************)
CreateComponentGroup(d, name) ==
  LET g == [name |-> name, uuid |-> d.next]
  IN  [dest |-> [d EXCEPT !.groups = Append(@, g), !.next = @ + 1], out |-> g]

CreateInternalTag(d, name) ==
  LET t == [name |-> name, id |-> d.next]
  IN  [dest |-> [d EXCEPT !.tags = Append(@, t), !.next = @ + 1], out |-> t]

CreateComponent(d, component) ==
  LET c == [component EXCEPT !.id = d.next, !.group = "", !.tags = <<>>]
  IN  [dest |-> [d EXCEPT !.components = Append(@, c), !.next = @ + 1], out |-> c]

UpdateComponent(d, id, component) ==
  LET i == CHOOSE i \in 1..Len(d.components) : d.components[i].id = id
      old == d.components[i]
      c == [old EXCEPT !.name = component.name,
                       !.uuid = IF component.uuid # 0 THEN component.uuid ELSE @,
                       !.wl = component.wl,
                       !.ids = IF component.ids # <<>> THEN component.ids ELSE @,
                       !.preset = IF component.preset # 0 THEN component.preset ELSE @]
  IN  [dest |-> [d EXCEPT !.components[i] = c], out |-> c]

CreatePreset(d, preset) ==
  LET p == [preset EXCEPT !.id = d.next]
  IN  [dest |-> [d EXCEPT !.presets = Append(@, p), !.next = @ + 1], out |-> p]

UpdatePreset(d, preset) ==
  LET i == CHOOSE i \in 1..Len(d.presets) : d.presets[i].id = preset.id
  IN  [dest |-> [d EXCEPT !.presets[i] = preset], out |-> preset]

(***************************************************************************)
(* push.Run: state.                                                        *)
(***************************************************************************)
NoResult ==
  [ExitCode |-> 0, MissingSelectors |-> <<>>, CreatedComponents |-> <<>>,
   UpdatedComponents |-> <<>>, ComponentsSynced |-> 0, PresetsSynced |-> 0]

NoOutcome ==
  [name |-> "", componentID |-> 0, presets |-> 0, created |-> FALSE, updated |-> FALSE]

\* a worker at its select, holding no job
IdleWorker ==
  [pc |-> "select", job |-> 0, comp |-> NoComponent, ti |-> 0, pi |-> 0,
   val |-> 0, err |-> "nil", res |-> NoComponent, dflt |-> "", cps |-> <<>>,
   eps |-> EmptyMap, log |-> <<>>, late |-> FALSE, pw |-> <<>>]

\* what the destination may answer to a request: it may fail MaxFaults
\* operations; a request in flight may also be cut by the cancellation
AnswerKinds == {"ok", "fail", "canceled"}
Answers == {"ok"} \cup (IF faults < MaxFaults THEN {"fail"} ELSE {})
InFlightAnswers == Answers \cup (IF egDone THEN {"canceled"} ELSE {})

ErrOf(a) == IF a = "fail" THEN "api" ELSE "canceled"

Req(op, key) == [op |-> op, key |-> key]

\* Run is called with Options o on destination d, which has f of its
\* MaxFaults failures behind it
PushInitOn(pc, o, d, f) ==
  /\ run = 1
  /\ runPc = pc
  /\ opts = o
  /\ dest = d
  /\ after1 = d
  /\ selected = <<>>
  /\ result = NoResult
  /\ runErr = "nil"
  /\ fetched = [k \in Lists |-> "idle"]
  /\ snap = [k \in Lists |-> <<>>]
  /\ egDone = FALSE
  /\ egErr = "nil"
  /\ groups = EmptyMap
  /\ tags = EmptyMap
  /\ components = EmptyMap
  /\ gFlight = EmptyMap
  /\ tFlight = EmptyMap
  /\ plans = <<>>
  /\ nextJob = 1
  /\ jobsClosed = FALSE
  /\ wk = [w \in {} |-> IdleWorker]
  /\ outcomes = [i \in {} |-> NoOutcome]
  /\ faults = f
  /\ issued = EmptyMap
  /\ failed = EmptyMap
  /\ ensured = {}

PushInitWith(pc, o) == PushInitOn(pc, o, DestEmpty, 0)

PushInit ==
  \/ \E o \in OptsSet : PushInitWith("begin", o)
  \/ PushInitOn("begin", OptsSpaced, DestOld, 0)

PushIdle == PushInitWith("idle", OptsShared)

(***************************************************************************)
(* Run, up to the plans.                                                   *)
(***************************************************************************)
RunBegin ==
  /\ UNCHANGED pushFrame
  /\ runPc = "begin"
  /\ LET f == Filter(opts.comps, opts.names, opts.mode, opts.all)
         bad == IF ~ValidateMode(opts.mode) THEN "mode"
                ELSE IF ~opts.all /\ Len(opts.names) = 0 THEN "nonames"
                ELSE IF Len(opts.comps) = 0 THEN "nocomponents"
                ELSE f.err
     IN  IF bad # "nil"
         THEN /\ runErr' = bad
              /\ runPc' = "returned"
              /\ UNCHANGED <<selected, result, fetched>>
         ELSE /\ selected' = f.selected
              /\ result' = [result EXCEPT !.MissingSelectors = f.missing,
                                          !.ExitCode = IF Len(f.missing) > 0 THEN 1 ELSE 0]
              /\ fetched' = [k \in Lists |-> "pending"]
              /\ runPc' = "fetch"
              /\ UNCHANGED runErr
  /\ UNCHANGED <<run, opts, dest, after1, snap, egDone, egErr, groups, tags,
                 components, gFlight, tFlight, plans, nextJob, jobsClosed, wk,
                 outcomes, faults, issued, failed, ensured>>

\* one of the four eg.Go(func() error { list, err := client.List...(egCtx) })
Fetch(k) ==
  /\ UNCHANGED pushFrame
  /\ runPc = "fetch"
  /\ fetched[k] = "pending"
  /\ IF egDone
     THEN /\ fetched' = [fetched EXCEPT ![k] = "canceled"]
          /\ UNCHANGED <<snap, faults, issued, failed>>
     ELSE \E a \in Answers :
            /\ issued' = BagAdd(issued, Req("list", k))
            /\ IF a = "ok"
               THEN /\ snap' = [snap EXCEPT ![k] = dest[k]]
                    /\ fetched' = [fetched EXCEPT ![k] = "ok"]
                    /\ UNCHANGED <<faults, failed>>
               ELSE /\ fetched' = [fetched EXCEPT ![k] = "api"]
                    /\ faults' = faults + 1
                    /\ failed' = BagAdd(failed, Req("list", k))
                    /\ UNCHANGED snap
  /\ UNCHANGED <<run, runPc, opts, dest, after1, selected, result, runErr, egDone,
                 egErr, groups, tags, components, gFlight, tFlight, plans, nextJob,
                 jobsClosed, wk, outcomes, ensured>>

\* a fetch goroutine that returns its error without cancelling egCtx
FetchReturnNoCancel(k) ==
  /\ UNCHANGED pushFrame
  /\ runPc = "fetch"
  /\ fetched[k] \in {"api", "canceled"}
  /\ egErr' = IF egErr = "nil" THEN fetched[k] ELSE egErr
  /\ fetched' = [fetched EXCEPT ![k] = "failed"]
  /\ UNCHANGED <<run, runPc, opts, dest, after1, selected, result, runErr, snap,
                 egDone, groups, tags, components, gFlight, tFlight, plans, nextJob,
                 jobsClosed, wk, outcomes, faults, issued, failed, ensured>>

\* the goroutine returns its error: errgroup keeps the first and cancels egCtx
FetchReturn(k) ==
  /\ UNCHANGED pushFrame
  /\ runPc = "fetch"
  /\ fetched[k] \in {"api", "canceled"}
  /\ egErr' = IF egErr = "nil" THEN fetched[k] ELSE egErr
  /\ egDone' = TRUE
  /\ fetched' = [fetched EXCEPT ![k] = "failed"]
  /\ UNCHANGED <<run, runPc, opts, dest, after1, selected, result, runErr, snap,
                 groups, tags, components, gFlight, tFlight, plans, nextJob,
                 jobsClosed, wk, outcomes, faults, issued, failed, ensured>>

\* eg.Wait() returns; on success the caches are seeded, the plans built and
\* the workers and the producer started
FetchWait ==
  /\ UNCHANGED pushFrame
  /\ runPc = "fetch"
  /\ \A k \in Lists : fetched[k] \in {"ok", "failed"}
  /\ IF egErr # "nil"
     THEN /\ result' = [result EXCEPT !.ExitCode = 2]
          /\ runErr' = egErr
          /\ runPc' = "returned"
          /\ UNCHANGED <<egDone, egErr, groups, tags, components, plans, wk, outcomes>>
     ELSE LET cache == SeedComponents(snap.components, Len(snap.components))
              built == Plans(opts.dry, selected, cache, opts.presets)
          IN  /\ groups' = SeedGroups(snap.groups, Len(snap.groups))
              /\ components' = cache
              /\ tags' = SeedTags(snap.tags, Len(snap.tags))
              /\ plans' = built
              /\ egDone' = FALSE
              /\ egErr' = "nil"
              /\ IF ~opts.dry /\ Len(built) > 0
                 THEN /\ wk' = [w \in 1..workerCount(Len(built)) |-> IdleWorker]
                      /\ outcomes' = [i \in 1..Len(built) |-> NoOutcome]
                      /\ runPc' = "work"
                 ELSE /\ runPc' = "report"
                      /\ UNCHANGED <<wk, outcomes>>
              /\ result' = IF opts.dry
                           THEN [result EXCEPT
                                   !.ComponentsSynced = Len(selected),
                                   !.PresetsSynced =
                                      DryRunPresets(selected, opts.presets, Len(selected))]
                           ELSE result
              /\ UNCHANGED runErr
  /\ UNCHANGED <<run, opts, dest, after1, selected, fetched, snap, gFlight, tFlight,
                 nextJob, jobsClosed, faults, issued, failed, ensured>>

(***************************************************************************)
(* The producer and the workers' select.                                   *)
(***************************************************************************)
\* processor.Process has returned an error to some worker
ProcessFailed == \E v \in DOMAIN wk : wk[v].job # 0 /\ wk[v].err # "nil"

\* a worker function that returns its error without cancelling egCtx
WorkerReturnNoCancel(w) ==
  /\ UNCHANGED pushFrame
  /\ runPc = "work"
  /\ w \in DOMAIN wk
  /\ wk[w].pc = "return"
  /\ egErr' = IF egErr = "nil" THEN wk[w].err ELSE egErr
  /\ wk' = [wk EXCEPT ![w] = [@ EXCEPT !.pc = "exited"]]
  /\ UNCHANGED <<run, runPc, opts, dest, after1, selected, result, runErr, fetched,
                 snap, egDone, groups, tags, components, gFlight, tFlight, plans,
                 nextJob, jobsClosed, outcomes, faults, issued, failed, ensured>>

\* a producer that offers the plan it has just handed over once more
HandoffSame(w) ==
  /\ UNCHANGED pushFrame
  /\ runPc = "work"
  /\ w \in DOMAIN wk
  /\ wk[w].pc = "select"
  /\ ~jobsClosed
  /\ nextJob <= Len(plans)
  /\ wk' = [wk EXCEPT ![w] = [IdleWorker EXCEPT !.pc = "process", !.job = nextJob,
                                               !.comp = plans[nextJob].component,
                                               !.late = ProcessFailed]]
  /\ UNCHANGED <<run, runPc, opts, dest, after1, selected, result, runErr, fetched,
                 snap, egDone, egErr, groups, tags, components, gFlight, tFlight,
                 plans, nextJob, jobsClosed, outcomes, faults, issued, failed, ensured>>

\* the producer hands plans[nextJob] to worker w: case jobs <- job and
\* case job, ok := <-jobs meet
Handoff(w) ==
  /\ UNCHANGED pushFrame
  /\ runPc = "work"
  /\ w \in DOMAIN wk
  /\ wk[w].pc = "select"
  /\ ~jobsClosed
  /\ nextJob <= Len(plans)
  /\ wk' = [wk EXCEPT ![w] = [IdleWorker EXCEPT !.pc = "process", !.job = nextJob,
                                               !.comp = plans[nextJob].component,
                                               !.late = ProcessFailed]]
  /\ nextJob' = nextJob + 1
  /\ UNCHANGED <<run, runPc, opts, dest, after1, selected, result, runErr, fetched,
                 snap, egDone, egErr, groups, tags, components, gFlight, tFlight,
                 plans, jobsClosed, outcomes, faults, issued, failed, ensured>>

\* a producer whose select has no case <-egCtx.Done()
ProducerCloseAtEnd ==
  /\ UNCHANGED pushFrame
  /\ runPc \in {"work", "returned"}
  /\ DOMAIN wk # {}
  /\ ~jobsClosed
  /\ nextJob > Len(plans)
  /\ jobsClosed' = TRUE
  /\ UNCHANGED <<run, runPc, opts, dest, after1, selected, result, runErr, fetched,
                 snap, egDone, egErr, groups, tags, components, gFlight, tFlight,
                 plans, nextJob, wk, outcomes, faults, issued, failed, ensured>>

\* the producer leaves its loop, at the end or on case <-egCtx.Done(), and
\* the deferred close(jobs) runs; Run does not wait for the producer, which
\* may see the cancellation after egWorkers.Wait() has returned
ProducerClose ==
  /\ UNCHANGED pushFrame
  /\ runPc \in {"work", "returned"}
  /\ DOMAIN wk # {}
  /\ ~jobsClosed
  /\ nextJob > Len(plans) \/ egDone
  /\ jobsClosed' = TRUE
  /\ UNCHANGED <<run, runPc, opts, dest, after1, selected, result, runErr, fetched,
                 snap, egDone, egErr, groups, tags, components, gFlight, tFlight,
                 plans, nextJob, wk, outcomes, faults, issued, failed, ensured>>

\* case <-egCtx.Done(): return egCtx.Err()
WorkerCancelled(w) ==
  /\ UNCHANGED pushFrame
  /\ runPc = "work"
  /\ w \in DOMAIN wk
  /\ wk[w].pc = "select"
  /\ egDone
  /\ wk' = [wk EXCEPT ![w] = [@ EXCEPT !.pc = "return", !.err = "canceled"]]
  /\ UNCHANGED <<run, runPc, opts, dest, after1, selected, result, runErr, fetched,
                 snap, egDone, egErr, groups, tags, components, gFlight, tFlight,
                 plans, nextJob, jobsClosed, outcomes, faults, issued, failed,
                 ensured>>

\* case job, ok := <-jobs with !ok: return nil
WorkerClosed(w) ==
  /\ UNCHANGED pushFrame
  /\ runPc = "work"
  /\ w \in DOMAIN wk
  /\ wk[w].pc = "select"
  /\ jobsClosed
  /\ wk' = [wk EXCEPT ![w] = [@ EXCEPT !.pc = "exited"]]
  /\ UNCHANGED <<run, runPc, opts, dest, after1, selected, result, runErr, fetched,
                 snap, egDone, egErr, groups, tags, components, gFlight, tFlight,
                 plans, nextJob, jobsClosed, outcomes, faults, issued, failed,
                 ensured>>

\* the worker function returns an error: errgroup keeps the first error and
\* cancels egCtx
WorkerReturn(w) ==
  /\ UNCHANGED pushFrame
  /\ runPc = "work"
  /\ w \in DOMAIN wk
  /\ wk[w].pc = "return"
  /\ egErr' = IF egErr = "nil" THEN wk[w].err ELSE egErr
  /\ egDone' = TRUE
  /\ wk' = [wk EXCEPT ![w] = [@ EXCEPT !.pc = "exited"]]
  /\ UNCHANGED <<run, runPc, opts, dest, after1, selected, result, runErr, fetched,
                 snap, groups, tags, components, gFlight, tFlight, plans, nextJob,
                 jobsClosed, outcomes, faults, issued, failed, ensured>>

(***************************************************************************)
(* componentProcessor.Process, one step per read of a cache, per           *)
(* single-flight call and per gateway operation.                           *)
(***************************************************************************)
GroupKey(w) == ToLower(TrimSpace(wk[w].comp.group))

TagName(w) == TrimSpace(wk[w].comp.tags[wk[w].ti])

Ensured(kind, key, w, id) == [kind |-> kind, key |-> key, job |-> wk[w].job, id |-> id]

\* Process after ensureComponentGroup returned uuid
WithGroup(r, uuid) ==
  [r EXCEPT !.comp = [@ EXCEPT !.uuid = uuid, !.group = ""], !.pc = "whitelist"]

\* an ensureInternalTags that returns after its first tag
NextTagEarly(r) == [r EXCEPT !.pc = "component"]

\* ensureInternalTags: on to the next tag, or back in Process
NextTag(r) ==
  IF r.ti > Len(r.comp.tags) THEN [r EXCEPT !.pc = "component"]
  ELSE [r EXCEPT !.pc = "tags"]

\* an ensureInternalTags that puts each new ID in front
WithTagInFront(r, id) ==
  NextTag([r EXCEPT !.comp = [@ EXCEPT !.ids = <<id>> \o @], !.ti = @ + 1])

WithTag(r, id) ==
  NextTag([r EXCEPT !.comp = [@ EXCEPT !.ids = Append(@, id)], !.ti = @ + 1])

\* createComponent / updateComponent after the presets: is the second
\* update, which sets the default preset, due
\* a default-preset update that is sent whatever preset_id the destination
\* component has
AfterPresetsAlways(r, plan) ==
  LET due == IF plan.exists
             THEN r.dflt # "" /\ r.dflt \in DOMAIN r.eps
             ELSE r.dflt # "" /\ findPresetByName(r.cps, r.dflt).ok
  IN  [r EXCEPT !.pc = IF due THEN "fixup" ELSE "finish"]

AfterPresets(r, plan) ==
  LET due == IF plan.exists
             THEN r.dflt # "" /\ r.dflt \in DOMAIN r.eps
                    /\ r.eps[r.dflt].id # plan.existing.preset
             ELSE r.dflt # "" /\ findPresetByName(r.cps, r.dflt).ok
  IN  [r EXCEPT !.pc = IF due THEN "fixup" ELSE "finish"]

\* the callers that joined the flight of worker w
GroupWaiters(w) == {v \in DOMAIN wk : wk[v].pc = "gwait" /\ GroupKey(v) = GroupKey(w)}

TagWaiters(w) == {v \in DOMAIN wk : wk[v].pc = "twait" /\ TagName(v) = TagName(w)}

\* the flight of worker w ends: w goes on as mine, and the result, or the
\* error, is delivered to the callers that joined
Deliver(w, mine, waiters, pc, val, err) ==
  [v \in DOMAIN wk |->
     IF v = w THEN mine
     ELSE IF v \in waiters THEN [wk[v] EXCEPT !.pc = pc, !.val = val, !.err = err]
     ELSE wk[v]]

\* Process up to the first Lookup of ensureComponentGroup
Process(w) ==
  /\ UNCHANGED pushFrame
  /\ runPc = "work"
  /\ w \in DOMAIN wk
  /\ wk[w].pc = "process"
  /\ LET name == wk[w].comp.group
         hit == groupCacheLookup(groups, name)
     IN  IF name = "" THEN
           /\ wk' = [wk EXCEPT ![w] = [@ EXCEPT !.pc = "whitelist"]]
           /\ UNCHANGED ensured
         ELSE IF hit.ok THEN
           /\ wk' = [wk EXCEPT ![w] = WithGroup(@, hit.value)]
           /\ ensured' = ensured \cup {Ensured("group", GroupKey(w), w, hit.value)}
         ELSE IF GroupKey(w) = "" THEN
           /\ wk' = [wk EXCEPT ![w] = WithGroup(@, 0)]
           /\ UNCHANGED ensured
         ELSE
           /\ wk' = [wk EXCEPT ![w] = [@ EXCEPT !.pc = "gdo"]]
           /\ UNCHANGED ensured
  /\ UNCHANGED <<run, runPc, opts, dest, after1, selected, result, runErr, fetched,
                 snap, egDone, egErr, groups, tags, components, gFlight, tFlight,
                 plans, nextJob, jobsClosed, outcomes, faults, issued, failed>>

\* a single-flight group that never joins a call in flight
InFlightNever(flight, key) == FALSE

\* is the key in flight: singleflight.Group.Do joins the call if it is
InFlight(flight, key) == key \in DOMAIN flight

\* groups.single.Do(key, fn): join the flight, or run fn up to its request
GroupDo(w) ==
  /\ UNCHANGED pushFrame
  /\ runPc = "work"
  /\ w \in DOMAIN wk
  /\ wk[w].pc = "gdo"
  /\ LET hit == groupCacheLookup(groups, wk[w].comp.group)
     IN  IF InFlight(gFlight, GroupKey(w)) THEN
           /\ wk' = [wk EXCEPT ![w] = [@ EXCEPT !.pc = "gwait"]]
           /\ UNCHANGED <<gFlight, issued, ensured>>
         ELSE IF hit.ok THEN
           /\ wk' = [wk EXCEPT ![w] = WithGroup(@, hit.value)]
           /\ ensured' = ensured \cup {Ensured("group", GroupKey(w), w, hit.value)}
           /\ UNCHANGED <<gFlight, issued>>
         ELSE IF egDone THEN
           /\ wk' = [wk EXCEPT ![w] = [@ EXCEPT !.pc = "return", !.err = "canceled"]]
           /\ UNCHANGED <<gFlight, issued, ensured>>
         ELSE
           /\ wk' = [wk EXCEPT ![w] = [@ EXCEPT !.pc = "gcreate", !.log = Append(@, "group")]]
           /\ gFlight' = MapSet(gFlight, GroupKey(w), w)
           /\ issued' = BagAdd(issued, Req("createGroup", GroupKey(w)))
           /\ UNCHANGED ensured
  /\ UNCHANGED <<run, runPc, opts, dest, after1, selected, result, runErr, fetched,
                 snap, egDone, egErr, groups, tags, components, tFlight, plans,
                 nextJob, jobsClosed, outcomes, faults, failed>>

\* client.CreateComponentGroup returns; fn sets the cache and returns, the
\* flight ends and its result goes to the callers that joined
GroupCreated(w, a) ==
  /\ UNCHANGED pushFrame
  /\ runPc = "work"
  /\ w \in DOMAIN wk
  /\ wk[w].pc = "gcreate"
  /\ a \in InFlightAnswers
  /\ gFlight' = MapDelete(gFlight, GroupKey(w))
  /\ IF a = "ok"
     THEN LET r == CreateComponentGroup(dest, wk[w].comp.group)
          IN  /\ dest' = r.dest
              /\ groups' = groupCacheSet(groups, wk[w].comp.group, r.out.uuid)
              /\ wk' = Deliver(w, WithGroup(wk[w], r.out.uuid), GroupWaiters(w),
                               "gret", r.out.uuid, "nil")
              /\ ensured' = ensured \cup {Ensured("group", GroupKey(w), w, r.out.uuid)}
              /\ UNCHANGED <<faults, failed>>
     ELSE /\ wk' = Deliver(w, [wk[w] EXCEPT !.pc = "return", !.err = ErrOf(a)],
                           GroupWaiters(w), "gret", 0, ErrOf(a))
          /\ faults' = IF a = "fail" THEN faults + 1 ELSE faults
          /\ failed' = BagAdd(failed, Req("createGroup", GroupKey(w)))
          /\ UNCHANGED <<dest, groups, ensured>>
  /\ UNCHANGED <<run, runPc, opts, after1, selected, result, runErr, fetched, snap,
                 egDone, egErr, tags, components, tFlight, plans, nextJob,
                 jobsClosed, outcomes, issued>>

\* a caller that joined the flight gets the flight's result
GroupJoined(w) ==
  /\ UNCHANGED pushFrame
  /\ runPc = "work"
  /\ w \in DOMAIN wk
  /\ wk[w].pc = "gret"
  /\ IF wk[w].err # "nil"
     THEN /\ wk' = [wk EXCEPT ![w] = [@ EXCEPT !.pc = "return"]]
          /\ UNCHANGED ensured
     ELSE /\ wk' = [wk EXCEPT ![w] = WithGroup(@, wk[w].val)]
          /\ ensured' = ensured \cup {Ensured("group", GroupKey(w), w, wk[w].val)}
  /\ UNCHANGED <<run, runPc, opts, dest, after1, selected, result, runErr, fetched,
                 snap, egDone, egErr, groups, tags, components, gFlight, tFlight,
                 plans, nextJob, jobsClosed, outcomes, faults, issued, failed>>

\* mapSchemaGroupWhitelist(&component, p.groups.Lookup)
Whitelist(w) ==
  /\ UNCHANGED pushFrame
  /\ runPc = "work"
  /\ w \in DOMAIN wk
  /\ wk[w].pc = "whitelist"
  /\ wk' = [wk EXCEPT ![w] =
              NextTag([@ EXCEPT !.comp = [@ EXCEPT !.wl = mapSchemaGroupWhitelist(@, groups)],
                                !.ti = 1])]
  /\ UNCHANGED <<run, runPc, opts, dest, after1, selected, result, runErr, fetched,
                 snap, egDone, egErr, groups, tags, components, gFlight, tFlight,
                 plans, nextJob, jobsClosed, outcomes, faults, issued, failed,
                 ensured>>

\* ensureInternalTags: one tag of the loop, up to the first Get
Tags(w) ==
  /\ UNCHANGED pushFrame
  /\ runPc = "work"
  /\ w \in DOMAIN wk
  /\ wk[w].pc = "tags"
  /\ LET hit == tagCacheGet(tags, TagName(w))
     IN  IF TagName(w) = "" THEN
           /\ wk' = [wk EXCEPT ![w] = NextTag([@ EXCEPT !.ti = @ + 1])]
           /\ UNCHANGED ensured
         ELSE IF hit.ok THEN
           /\ wk' = [wk EXCEPT ![w] = WithTag(@, hit.value)]
           /\ ensured' = ensured \cup {Ensured("tag", TagName(w), w, hit.value)}
         ELSE
           /\ wk' = [wk EXCEPT ![w] = [@ EXCEPT !.pc = "tdo"]]
           /\ UNCHANGED ensured
  /\ UNCHANGED <<run, runPc, opts, dest, after1, selected, result, runErr, fetched,
                 snap, egDone, egErr, groups, tags, components, gFlight, tFlight,
                 plans, nextJob, jobsClosed, outcomes, faults, issued, failed>>

\* tags.single.Do(name, fn)
TagDo(w) ==
  /\ UNCHANGED pushFrame
  /\ runPc = "work"
  /\ w \in DOMAIN wk
  /\ wk[w].pc = "tdo"
  /\ LET hit == tagCacheGet(tags, TagName(w))
     IN  IF InFlight(tFlight, TagName(w)) THEN
           /\ wk' = [wk EXCEPT ![w] = [@ EXCEPT !.pc = "twait"]]
           /\ UNCHANGED <<tFlight, issued, ensured>>
         ELSE IF hit.ok THEN
           /\ wk' = [wk EXCEPT ![w] = WithTag(@, hit.value)]
           /\ ensured' = ensured \cup {Ensured("tag", TagName(w), w, hit.value)}
           /\ UNCHANGED <<tFlight, issued>>
         ELSE IF egDone THEN
           /\ wk' = [wk EXCEPT ![w] = [@ EXCEPT !.pc = "return", !.err = "canceled"]]
           /\ UNCHANGED <<tFlight, issued, ensured>>
         ELSE
           /\ wk' = [wk EXCEPT ![w] = [@ EXCEPT !.pc = "tcreate", !.log = Append(@, "tag")]]
           /\ tFlight' = MapSet(tFlight, TagName(w), w)
           /\ issued' = BagAdd(issued, Req("createTag", TagName(w)))
           /\ UNCHANGED ensured
  /\ UNCHANGED <<run, runPc, opts, dest, after1, selected, result, runErr, fetched,
                 snap, egDone, egErr, groups, tags, components, gFlight, plans,
                 nextJob, jobsClosed, outcomes, faults, failed>>

\* client.CreateInternalTag returns
TagCreated(w, a) ==
  /\ UNCHANGED pushFrame
  /\ runPc = "work"
  /\ w \in DOMAIN wk
  /\ wk[w].pc = "tcreate"
  /\ a \in InFlightAnswers
  /\ tFlight' = MapDelete(tFlight, TagName(w))
  /\ IF a = "ok"
     THEN LET r == CreateInternalTag(dest, TagName(w))
          IN  /\ dest' = r.dest
              /\ tags' = tagCacheSet(tags, TagName(w), r.out.id)
              /\ wk' = Deliver(w, WithTag(wk[w], r.out.id), TagWaiters(w),
                               "tret", r.out.id, "nil")
              /\ ensured' = ensured \cup {Ensured("tag", TagName(w), w, r.out.id)}
              /\ UNCHANGED <<faults, failed>>
     ELSE /\ wk' = Deliver(w, [wk[w] EXCEPT !.pc = "return", !.err = ErrOf(a)],
                           TagWaiters(w), "tret", 0, ErrOf(a))
          /\ faults' = IF a = "fail" THEN faults + 1 ELSE faults
          /\ failed' = BagAdd(failed, Req("createTag", TagName(w)))
          /\ UNCHANGED <<dest, tags, ensured>>
  /\ UNCHANGED <<run, runPc, opts, after1, selected, result, runErr, fetched, snap,
                 egDone, egErr, groups, components, gFlight, plans, nextJob,
                 jobsClosed, outcomes, issued>>

TagJoined(w) ==
  /\ UNCHANGED pushFrame
  /\ runPc = "work"
  /\ w \in DOMAIN wk
  /\ wk[w].pc = "tret"
  /\ IF wk[w].err # "nil"
     THEN /\ wk' = [wk EXCEPT ![w] = [@ EXCEPT !.pc = "return"]]
          /\ UNCHANGED ensured
     ELSE /\ wk' = [wk EXCEPT ![w] = WithTag(@, wk[w].val)]
          /\ ensured' = ensured \cup {Ensured("tag", TagName(w), w, wk[w].val)}
  /\ UNCHANGED <<run, runPc, opts, dest, after1, selected, result, runErr, fetched,
                 snap, egDone, egErr, groups, tags, components, gFlight, tFlight,
                 plans, nextJob, jobsClosed, outcomes, faults, issued, failed>>

(***************************************************************************)
(* createComponent and updateComponent, one step per gateway operation.    *)
(* A gateway operation whose context is already cancelled returns the      *)
(* context's error without a request.                                      *)
(***************************************************************************)
Plan(w) == plans[wk[w].job]

ComponentOp(w) == IF Plan(w).exists THEN "updateComponent" ELSE "createComponent"

ComponentKey(w) == ToLower(TrimSpace(wk[w].comp.name))

\* the operation of worker w failed, or was not started: Process returns err
Failing(w, a) == wk' = [wk EXCEPT ![w] = [@ EXCEPT !.pc = "return", !.err = ErrOf(a)]]

\* the request op of worker w was sent and failed
FailingSent(w, a, op) ==
  wk' = [wk EXCEPT ![w] = [@ EXCEPT !.pc = "return", !.err = ErrOf(a),
                                    !.log = Append(@, op)]]

\* the first request for the component: preset_id is 0
Component(w) ==
  /\ UNCHANGED pushFrame
  /\ runPc = "work"
  /\ w \in DOMAIN wk
  /\ wk[w].pc = "component"
  /\ LET plan == Plan(w)
         dflt == defaultPresetName(wk[w].comp, plan.presets)
         body == [wk[w].comp EXCEPT !.preset = 0,
                                    !.id = IF plan.exists THEN plan.existing.id ELSE @]
         req == Req(ComponentOp(w), ComponentKey(w))
     IN  IF egDone THEN
           /\ Failing(w, "canceled")
           /\ UNCHANGED <<dest, faults, issued, failed>>
         ELSE \E a \in Answers :
           /\ issued' = BagAdd(issued, req)
           /\ IF a = "ok"
              THEN LET r == IF plan.exists
                            THEN UpdateComponent(dest, plan.existing.id, body)
                            ELSE CreateComponent(dest, body)
                       next == [wk[w] EXCEPT
                                  !.log = Append(@, "component"),
                                  !.comp = body, !.res = r.out, !.dflt = dflt, !.pi = 1,
                                  !.eps = IF plan.exists
                                          THEN ExistingPresets(snap.presets, plan.existing.id,
                                                               Len(snap.presets))
                                          ELSE EmptyMap]
                   IN  /\ dest' = r.dest
                       /\ wk' = [wk EXCEPT ![w] =
                                   IF Len(plan.presets) = 0 THEN AfterPresets(next, plan)
                                   ELSE [next EXCEPT !.pc = "presets"]]
                       /\ UNCHANGED <<faults, failed>>
              ELSE /\ FailingSent(w, a, "component")
                   /\ faults' = faults + 1
                   /\ failed' = BagAdd(failed, req)
                   /\ UNCHANGED dest
  /\ UNCHANGED <<run, runPc, opts, after1, selected, result, runErr, fetched, snap,
                 egDone, egErr, groups, tags, components, gFlight, tFlight, plans,
                 nextJob, jobsClosed, outcomes, ensured>>

\* one preset of the loop: created for a new component; for an existing one
\* updated if the snapshot has a preset of that name, created otherwise
Preset(w) ==
  /\ UNCHANGED pushFrame
  /\ runPc = "work"
  /\ w \in DOMAIN wk
  /\ wk[w].pc = "presets"
  /\ LET plan == Plan(w)
         preset == plan.presets[wk[w].pi]
         key == ToLower(preset.name)
         known == plan.exists /\ key \in DOMAIN wk[w].eps
         body == [preset EXCEPT !.cid = IF plan.exists THEN plan.existing.id ELSE wk[w].res.id,
                                !.id = IF known THEN wk[w].eps[key].id ELSE 0]
         req == Req(IF known THEN "updatePreset" ELSE "createPreset", key)
     IN  IF egDone THEN
           /\ Failing(w, "canceled")
           /\ UNCHANGED <<dest, faults, issued, failed>>
         ELSE \E a \in Answers :
           /\ issued' = BagAdd(issued, req)
           /\ IF a = "ok"
              THEN LET r == IF known THEN UpdatePreset(dest, body) ELSE CreatePreset(dest, body)
                       next == [wk[w] EXCEPT
                                  !.log = Append(@, "preset"),
                                  !.pw = Append(@, [op |-> req.op, id |-> r.out.id]),
                                  !.pi = @ + 1,
                                  !.cps = IF plan.exists THEN @ ELSE Append(@, r.out),
                                  !.eps = IF plan.exists THEN MapSet(@, key, r.out) ELSE @]
                   IN  /\ dest' = r.dest
                       /\ wk' = [wk EXCEPT ![w] =
                                   IF next.pi > Len(plan.presets) THEN AfterPresets(next, plan)
                                   ELSE next]
                       /\ UNCHANGED <<faults, failed>>
              ELSE /\ FailingSent(w, a, "preset")
                   /\ faults' = faults + 1
                   /\ failed' = BagAdd(failed, req)
                   /\ UNCHANGED dest
  /\ UNCHANGED <<run, runPc, opts, after1, selected, result, runErr, fetched, snap,
                 egDone, egErr, groups, tags, components, gFlight, tFlight, plans,
                 nextJob, jobsClosed, outcomes, ensured>>

\* the second update, which sets preset_id to the default preset
Fixup(w) ==
  /\ UNCHANGED pushFrame
  /\ runPc = "work"
  /\ w \in DOMAIN wk
  /\ wk[w].pc = "fixup"
  /\ LET plan == Plan(w)
         target == IF plan.exists THEN wk[w].eps[wk[w].dflt]
                   ELSE findPresetByName(wk[w].cps, wk[w].dflt).preset
         body == IF plan.exists THEN [wk[w].comp EXCEPT !.preset = target.id]
                 ELSE [wk[w].res EXCEPT !.preset = target.id]
         id == IF plan.exists THEN plan.existing.id ELSE wk[w].res.id
         req == Req("updateComponent", ComponentKey(w))
     IN  IF egDone THEN
           /\ Failing(w, "canceled")
           /\ UNCHANGED <<dest, faults, issued, failed>>
         ELSE \E a \in Answers :
           /\ issued' = BagAdd(issued, req)
           /\ IF a = "ok"
              THEN LET r == UpdateComponent(dest, id, body)
                   IN  /\ dest' = r.dest
                       /\ wk' = [wk EXCEPT ![w] = [@ EXCEPT !.res = r.out, !.pc = "finish",
                                                            !.log = Append(@, "fixup")]]
                       /\ UNCHANGED <<faults, failed>>
              ELSE /\ FailingSent(w, a, "fixup")
                   /\ faults' = faults + 1
                   /\ failed' = BagAdd(failed, req)
                   /\ UNCHANGED dest
  /\ UNCHANGED <<run, runPc, opts, after1, selected, result, runErr, fetched, snap,
                 egDone, egErr, groups, tags, components, gFlight, tFlight, plans,
                 nextJob, jobsClosed, outcomes, ensured>>

\* strings.EqualFold
EqualFold(a, b) == ToLower(a) = ToLower(b)

\* a Process that ends by deleting the destination components no plan names
FinishPrune(w) ==
  /\ UNCHANGED pushFrame
  /\ runPc = "work"
  /\ w \in DOMAIN wk
  /\ wk[w].pc = "finish"
  /\ LET plan == Plan(w)
         res == wk[w].res
         named == {i \in 1..Len(dest.components) :
                     \E j \in 1..Len(plans) :
                       ToLower(TrimSpace(plans[j].component.name))
                         = ToLower(TrimSpace(dest.components[i].name))}
     IN  /\ components' =
               IF plan.exists /\ ~EqualFold(plan.existing.name, res.name)
               THEN componentCacheReplace(components, plan.existing.name, res.name, res)
               ELSE componentCacheSet(components, res.name, res)
         /\ outcomes' = [outcomes EXCEPT ![plan.index] =
                           [name |-> res.name, componentID |-> res.id,
                            presets |-> Len(plan.presets), created |-> ~plan.exists,
                            updated |-> plan.exists]]
         /\ dest' = [dest EXCEPT !.components = KeepIdx(@, named, Len(@))]
         /\ issued' = BagAdd(issued, Req("deleteComponent", ComponentKey(w)))
  /\ wk' = [wk EXCEPT ![w] = IdleWorker]
  /\ UNCHANGED <<run, runPc, opts, after1, selected, result, runErr, fetched,
                 snap, egDone, egErr, groups, tags, gFlight, tFlight, plans, nextJob,
                 jobsClosed, faults, failed, ensured>>

\* Process returns its outcome: the component cache is updated, the worker
\* stores the outcome and is back at its select
Finish(w) ==
  /\ UNCHANGED pushFrame
  /\ runPc = "work"
  /\ w \in DOMAIN wk
  /\ wk[w].pc = "finish"
  /\ LET plan == Plan(w)
         res == wk[w].res
     IN  /\ components' =
               IF plan.exists /\ ~EqualFold(plan.existing.name, res.name)
               THEN componentCacheReplace(components, plan.existing.name, res.name, res)
               ELSE componentCacheSet(components, res.name, res)
         /\ outcomes' = [outcomes EXCEPT ![plan.index] =
                           [name |-> res.name, componentID |-> res.id,
                            presets |-> Len(plan.presets), created |-> ~plan.exists,
                            updated |-> plan.exists]]
  /\ wk' = [wk EXCEPT ![w] = IdleWorker]
  /\ UNCHANGED <<run, runPc, opts, dest, after1, selected, result, runErr, fetched,
                 snap, egDone, egErr, groups, tags, gFlight, tFlight, plans, nextJob,
                 jobsClosed, faults, issued, failed, ensured>>

(***************************************************************************)
(* Run, from egWorkers.Wait() on.                                          *)
(***************************************************************************)
RunWait ==
  /\ UNCHANGED pushFrame
  /\ runPc = "work"
  /\ \A w \in DOMAIN wk : wk[w].pc = "exited"
  /\ IF egErr # "nil"
     THEN /\ result' = [result EXCEPT !.ExitCode = 2]
          /\ runErr' = egErr
          /\ runPc' = "returned"
     ELSE /\ runPc' = "report"
          /\ UNCHANGED <<result, runErr>>
  /\ UNCHANGED <<run, opts, dest, after1, selected, fetched, snap, egDone, egErr,
                 groups, tags, components, gFlight, tFlight, plans, nextJob,
                 jobsClosed, wk, outcomes, faults, issued, failed, ensured>>

RECURSIVE SortStrings(_)
\* sort.Strings
SortStrings(s) ==
  IF Len(s) = 0 THEN <<>>
  ELSE LET t == SortStrings(SubSeq(s, 1, Len(s) - 1))
           x == s[Len(s)]
           I == {i \in 1..Len(t) : Rank(t[i]) > Rank(x)}
           p == IF I = {} THEN Len(t) + 1 ELSE CHOOSE i \in I : \A j \in I : i <= j
       IN  SubSeq(t, 1, p - 1) \o <<x>> \o SubSeq(t, p, Len(t))

\* an aggregation that counts one preset per plan
SumPresetsOneEach(o, n) == n

RECURSIVE SumPresets(_, _)
SumPresets(o, n) ==
  IF n = 0 THEN 0
  ELSE SumPresets(o, n - 1) + (IF o[n].name # "" THEN o[n].presets ELSE 0)

\* the outcomes are aggregated into the Result and Run returns nil
RunReport ==
  /\ UNCHANGED pushFrame
  /\ runPc = "report"
  /\ LET n == IF opts.dry THEN 0 ELSE Len(plans)
         names == [i \in 1..n |-> outcomes[i].name]
         done == {i \in 1..n : outcomes[i].name # ""}
         created == KeepIdx(names, {i \in done : outcomes[i].created}, n)
         updated == KeepIdx(names, {i \in done : ~outcomes[i].created /\ outcomes[i].updated}, n)
     IN  result' = [result EXCEPT !.CreatedComponents = SortStrings(created),
                                  !.UpdatedComponents = SortStrings(updated),
                                  !.ComponentsSynced = @ + Cardinality(done),
                                  !.PresetsSynced = @ + SumPresets(outcomes, n)]
  /\ runPc' = "returned"
  /\ UNCHANGED <<run, opts, dest, after1, selected, runErr, fetched, snap, egDone,
                 egErr, groups, tags, components, gFlight, tFlight, plans, nextJob,
                 jobsClosed, wk, outcomes, faults, issued, failed, ensured>>

\* push.Run is run again, with the same Options and files, on the
\* destination as the first run left it
RunAgain ==
  /\ UNCHANGED pushFrame
  /\ runPc = "returned"
  /\ run = 1
  /\ runErr = "nil"
  /\ run' = 2
  /\ after1' = dest
  /\ runPc' = "begin"
  /\ selected' = <<>>
  /\ result' = NoResult
  /\ fetched' = [k \in Lists |-> "idle"]
  /\ snap' = [k \in Lists |-> <<>>]
  /\ egDone' = FALSE
  /\ groups' = EmptyMap
  /\ tags' = EmptyMap
  /\ components' = EmptyMap
  /\ plans' = <<>>
  /\ nextJob' = 1
  /\ jobsClosed' = FALSE
  /\ wk' = [w \in {} |-> IdleWorker]
  /\ outcomes' = [i \in {} |-> NoOutcome]
  /\ issued' = EmptyMap
  /\ failed' = EmptyMap
  /\ ensured' = {}
  /\ UNCHANGED <<opts, dest, runErr, egErr, gFlight, tFlight, faults>>

Next ==
  \/ RunBegin
  \/ \E k \in Lists : Fetch(k)
  \/ \E k \in Lists : FetchReturn(k)
  \/ FetchWait
  \/ \E w \in Workers : Handoff(w)
  \/ ProducerClose
  \/ \E w \in Workers : WorkerCancelled(w)
  \/ \E w \in Workers : WorkerClosed(w)
  \/ \E w \in Workers : WorkerReturn(w)
  \/ \E w \in Workers : Process(w)
  \/ \E w \in Workers : GroupDo(w)
  \/ \E w \in Workers : \E a \in AnswerKinds : GroupCreated(w, a)
  \/ \E w \in Workers : GroupJoined(w)
  \/ \E w \in Workers : Whitelist(w)
  \/ \E w \in Workers : Tags(w)
  \/ \E w \in Workers : TagDo(w)
  \/ \E w \in Workers : \E a \in AnswerKinds : TagCreated(w, a)
  \/ \E w \in Workers : TagJoined(w)
  \/ \E w \in Workers : Component(w)
  \/ \E w \in Workers : Preset(w)
  \/ \E w \in Workers : Fixup(w)
  \/ \E w \in Workers : Finish(w)
  \/ RunWait
  \/ RunReport
  \/ RunAgain

(***************************************************************************)
(* Scheduling.  Every goroutine that can take a step takes one in the end: *)
(* Run itself, the four list goroutines, the producer and each worker (a   *)
(* request in flight is answered).  Whether push.Run is run a second time  *)
(* is left to the user.                                                    *)
(***************************************************************************)
RunStep == RunBegin \/ FetchWait \/ RunWait \/ RunReport

FetchStep(k) == Fetch(k) \/ FetchReturn(k)

WorkerStep(w) ==
  \/ Handoff(w) \/ WorkerCancelled(w) \/ WorkerClosed(w) \/ WorkerReturn(w)
  \/ Process(w) \/ GroupDo(w) \/ GroupJoined(w) \/ Whitelist(w) \/ Tags(w)
  \/ TagDo(w) \/ TagJoined(w) \/ Component(w) \/ Preset(w) \/ Fixup(w)
  \/ Finish(w)
  \/ \E a \in AnswerKinds : GroupCreated(w, a) \/ TagCreated(w, a)

Fairness ==
  /\ WF_vars(RunStep)
  /\ \A k \in Lists : WF_vars(FetchStep(k))
  /\ WF_vars(ProducerClose)
  /\ \A w \in 1..WorkerLimit : WF_vars(WorkerStep(w))

(***************************************************************************)
(* internal/cli: the exit code of the process.                             *)
(***************************************************************************)
ExitCodeOK == 0
ExitCodeInvalid == 1
ExitCodeAPI == 2
ExitCodeExecution == 3

\* SetExitCode: the exit code only grows
SetExitCode(exitCode, code) == IF code > exitCode THEN code ELSE exitCode

\* RunE of push-components: the exit code after push.Run returned res, err
RunE(res, err) ==
  IF err # "nil"
  THEN SetExitCode(ExitCodeOK,
                   IF res.ExitCode = 0 THEN ExitCodeExecution ELSE res.ExitCode)
  ELSE SetExitCode(ExitCodeOK, res.ExitCode)

\* Execute: what os.Exit gets when the command returned err
Execute(err, exitCode) ==
  IF err # "nil" /\ exitCode = ExitCodeOK THEN ExitCodeExecution ELSE exitCode

\* the exit code of the process that ran push.Run
ProcessExit == Execute(runErr, RunE(result, runErr))

(***************************************************************************)
(* limiter.SpaceLimiter: the buckets of the spaces, made on first use, and *)
(* callers of WaitRead/WaitWrite and NudgeRead/NudgeWrite.                 *)
(***************************************************************************)
\* the spaceIDs the callers use
Spaces == {1, 2}

\* a get that makes new buckets on every call
getAlwaysNew(sp, bs, mk, id, t) ==
  LET n == Len(bs)
  IN  [spaces |-> MapSet(sp, id, [read |-> n + 1, write |-> n + 2]),
       buckets |-> bs \o <<newBucket(DefaultRPS, Burst * OneToken, t),
                           newBucket(DefaultRPS, Burst * OneToken, t)>>,
       made |-> mk \o <<[space |-> id, kind |-> "read"], [space |-> id, kind |-> "write"]>>,
       pair |-> [read |-> n + 1, write |-> n + 2]]

\* SpaceLimiter.get, under sl.mu: the buckets of the space, made if the map
\* does not have them
get(sp, bs, mk, id, t) ==
  IF id \in DOMAIN sp
  THEN [spaces |-> sp, buckets |-> bs, made |-> mk, pair |-> sp[id]]
  ELSE LET n == Len(bs)
       IN  [spaces |-> MapSet(sp, id, [read |-> n + 1, write |-> n + 2]),
            buckets |-> bs \o <<newBucket(DefaultRPS, Burst * OneToken, t),
                                newBucket(DefaultRPS, Burst * OneToken, t)>>,
            made |-> mk \o <<[space |-> id, kind |-> "read"],
                             [space |-> id, kind |-> "write"]>>,
            pair |-> [read |-> n + 1, write |-> n + 2]]

\* a caller outside the limiter
SlIdleCaller == [pc |-> "idle", space |-> 0, kind |-> "read", b |-> 0, delta |-> 0, wake |-> 0]

SlInit ==
  /\ spaces = EmptyMap
  /\ buckets = <<>>
  /\ made = <<>>
  /\ slPc = [c \in Callers |-> SlIdleCaller]
  /\ slNow = 0
  /\ slTicks = 0
  /\ slCalls = 0
  /\ slNudges = 0

\* the limiter part of the state while another specification runs
SlIdle ==
  /\ spaces = EmptyMap
  /\ buckets = <<>>
  /\ made = <<>>
  /\ slPc = <<>>
  /\ slNow = 0
  /\ slTicks = 0
  /\ slCalls = 0
  /\ slNudges = 0

\* WaitRead / WaitWrite(ctx, spaceID): sl.get(spaceID), then wait on the
\* read or the write bucket
SlWait(c, id, k) ==
  /\ UNCHANGED slFrame
  /\ slPc[c].pc = "idle"
  /\ slCalls < MaxCalls
  /\ slCalls' = slCalls + 1
  /\ LET g == get(spaces, buckets, made, id, slNow)
     IN  /\ spaces' = g.spaces
         /\ buckets' = g.buckets
         /\ made' = g.made
         /\ slPc' = [slPc EXCEPT ![c] = [SlIdleCaller EXCEPT !.pc = "lock", !.space = id,
                                                             !.kind = k, !.b = g.pair[k]]]
  /\ UNCHANGED <<slNow, slTicks, slNudges>>

\* NudgeRead / NudgeWrite(spaceID, -0.2, 1, 7): sl.get(spaceID), then
\* sl.nudge on the read or the write bucket
SlNudgeCall(c, id, k) ==
  /\ UNCHANGED slFrame
  /\ slPc[c].pc = "idle"
  /\ slNudges < MaxNudges
  /\ slNudges' = slNudges + 1
  /\ LET g == get(spaces, buckets, made, id, slNow)
     IN  /\ spaces' = g.spaces
         /\ buckets' = g.buckets
         /\ made' = g.made
         /\ slPc' = [slPc EXCEPT ![c] = [SlIdleCaller EXCEPT !.pc = "nudge", !.space = id,
                                                             !.kind = k, !.b = g.pair[k],
                                                             !.delta = NudgeDown]]
  /\ UNCHANGED <<slNow, slTicks, slCalls>>

\* tokenBucket.wait, the locked section: refill, then take a token and
\* return, or start the timer
SlWaitLocked(c) ==
  /\ UNCHANGED slFrame
  /\ slPc[c].pc = "lock"
  /\ LET i == slPc[c].b
         b == refillLocked(buckets[i], slNow)
     IN  IF HasToken(b)
         THEN /\ buckets' = [buckets EXCEPT ![i] = [b EXCEPT !.tokens = @ - OneToken]]
              /\ slPc' = [slPc EXCEPT ![c] = SlIdleCaller]
         ELSE /\ buckets' = [buckets EXCEPT ![i] = b]
              /\ slPc' = [slPc EXCEPT ![c] =
                            [@ EXCEPT !.pc = "sleep",
                                      !.wake = slNow + SleepFor(OneToken - b.tokens, b.rps)]]
  /\ UNCHANGED <<spaces, made, slNow, slTicks, slCalls, slNudges>>

\* tokenBucket.wait: the timer fires and the loop starts again
SlWaitTimer(c) ==
  /\ UNCHANGED slFrame
  /\ slPc[c].pc = "sleep"
  /\ slNow >= slPc[c].wake
  /\ slPc' = [slPc EXCEPT ![c] = [@ EXCEPT !.pc = "lock"]]
  /\ UNCHANGED <<spaces, buckets, made, slNow, slTicks, slCalls, slNudges>>

\* SpaceLimiter.nudge, under b.mu
SlNudge(c) ==
  /\ UNCHANGED slFrame
  /\ slPc[c].pc = "nudge"
  /\ buckets' = [buckets EXCEPT ![slPc[c].b] =
                   [@ EXCEPT !.rps = nudge(@, slPc[c].delta, NudgeMin, NudgeMax)]]
  /\ slPc' = [slPc EXCEPT ![c] = SlIdleCaller]
  /\ UNCHANGED <<spaces, made, slNow, slTicks, slCalls, slNudges>>

\* the timers of the sleeping callers
Wakes == {slPc[c].wake : c \in {x \in DOMAIN slPc : slPc[x].pc = "sleep"}}

\* time passes, up to the next timer
SlTick ==
  /\ UNCHANGED slFrame
  /\ slTicks < MaxTicks
  /\ Wakes # {}
  /\ \A t \in Wakes : t > slNow
  /\ slTicks' = slTicks + 1
  /\ slNow' = CHOOSE t \in Wakes : \A u \in Wakes : t <= u
  /\ UNCHANGED <<spaces, buckets, made, slPc, slCalls, slNudges>>

SlNext ==
  \/ \E c \in Callers : \E id \in Spaces : \E k \in Kinds : SlWait(c, id, k)
  \/ \E c \in Callers : \E id \in Spaces : \E k \in Kinds : SlNudgeCall(c, id, k)
  \/ \E c \in Callers : SlWaitLocked(c)
  \/ \E c \in Callers : SlWaitTimer(c)
  \/ \E c \in Callers : SlNudge(c)
  \/ SlTick

(***************************************************************************)
(* storyblok.RetryCounters, shared through the context by the operations   *)
(* that the goroutines of one run have in flight.  Of Client.do each       *)
(* operation keeps what decides the counters: the attempt, the status of   *)
(* the response, and the two atomic additions of a Record call, which are  *)
(* separate steps.                                                         *)
(***************************************************************************)
RcWorkers == {1, 2}

RcIdleOp == [pc |-> "idle", attempt |-> 0, status |-> 0]

RcInit ==
  /\ rcPc = [w \in RcWorkers |-> RcIdleOp]
  /\ rcSeen = [s429 |-> 0, s5xx |-> 0]
  /\ rcCalls = 0

RcIdle == RcInit

\* a goroutine of the run calls a Client operation: attempt := 0
RcStart(w) ==
  /\ rcPc[w].pc = "idle"
  /\ rcCalls < MaxCalls
  /\ rcCalls' = rcCalls + 1
  /\ rcPc' = [rcPc EXCEPT ![w] = [pc |-> "send", attempt |-> 0, status |-> 0]]
  /\ UNCHANGED <<rcSeen, Status429, Status5xx, Total, rcFrame>>

\* httpClient.Do answers with status s; the closure classifies the response
RcRespond(w, s) ==
  /\ rcPc[w].pc = "send"
  /\ rcSeen' = [s429 |-> rcSeen.s429 + (IF s = 429 THEN 1 ELSE 0),
                s5xx |-> rcSeen.s5xx + (IF s >= 500 THEN 1 ELSE 0)]
  /\ rcPc' = [rcPc EXCEPT ![w] =
       [pc |-> IF s >= 200 /\ s < 300 THEN "idle"
               ELSE IF IsRateLimited(APIError(s, 0)) THEN "add429"
               ELSE IF IsServerError(s) THEN "add5xx"
               ELSE "idle",
        attempt |-> @.attempt, status |-> s]]
  /\ UNCHANGED <<rcCalls, Status429, Status5xx, Total, rcFrame>>

\* RecordRateLimit: r.Status429.Add(1)
RcAdd429(w) ==
  /\ rcPc[w].pc = "add429"
  /\ Status429' = Status429 + 1
  /\ rcPc' = [rcPc EXCEPT ![w].pc = "addTotal"]
  /\ UNCHANGED <<rcSeen, rcCalls, Status5xx, Total, rcFrame>>

\* RecordServerError: r.Status5xx.Add(1)
RcAdd5xx(w) ==
  /\ rcPc[w].pc = "add5xx"
  /\ Status5xx' = Status5xx + 1
  /\ rcPc' = [rcPc EXCEPT ![w].pc = "addTotal"]
  /\ UNCHANGED <<rcSeen, rcCalls, Status429, Total, rcFrame>>

\* a Record call that leaves Total alone
RcAddTotalSkip(w) ==
  /\ rcPc[w].pc = "addTotal"
  /\ rcPc' = [rcPc EXCEPT ![w].pc = "backoff"]
  /\ UNCHANGED <<rcSeen, rcCalls, Status429, Status5xx, Total, rcFrame>>

\* RecordRateLimit, RecordServerError: r.Total.Add(1)
RcAddTotal(w) ==
  /\ rcPc[w].pc = "addTotal"
  /\ Total' = Total + 1
  /\ rcPc' = [rcPc EXCEPT ![w].pc = "backoff"]
  /\ UNCHANGED <<rcSeen, rcCalls, Status429, Status5xx, rcFrame>>

\* the backoff wait, attempt++ and the loop condition
RcRetry(w) ==
  /\ rcPc[w].pc = "backoff"
  /\ rcPc' = [rcPc EXCEPT ![w] =
       IF MoreAttempts(@.attempt + 1)
         THEN [pc |-> "send", attempt |-> @.attempt + 1, status |-> @.status]
         ELSE [pc |-> "idle", attempt |-> @.attempt, status |-> @.status]]
  /\ UNCHANGED <<rcSeen, rcCalls, Status429, Status5xx, Total, rcFrame>>

RcNext ==
  \/ \E w \in RcWorkers : RcStart(w)
  \/ \E w \in RcWorkers : \E s \in StatusCodes : RcRespond(w, s)
  \/ \E w \in RcWorkers : RcAdd429(w)
  \/ \E w \in RcWorkers : RcAdd5xx(w)
  \/ \E w \in RcWorkers : RcAddTotal(w)
  \/ \E w \in RcWorkers : RcRetry(w)

DoIdle ==
  /\ doPc = "idle"
  /\ tokenOk = TRUE
  /\ isWrite = FALSE
  /\ hasOut = FALSE
  /\ attempt = 0
  /\ backoff = 0
  /\ lastErr = NoErr
  /\ doResult = Pending
  /\ ctxDone = FALSE
  /\ sent = 0
  /\ responses = <<>>
  /\ waits = <<>>
  /\ acquired = [k \in Kinds |-> 0]
  /\ rps = [k \in Kinds |-> DefaultRPS]
  /\ rps0 = rps
  /\ Status429 = 0
  /\ Status5xx = 0
  /\ Total = 0

BucketInit == BkInit /\ DoIdle /\ PushIdle /\ SlIdle /\ RcIdle

BucketSpec == BucketInit /\ [][BkNext]_vars

DoInit == DoInitVars /\ BkIdle /\ PushIdle /\ SlIdle /\ RcIdle

DoSpec == DoInit /\ [][DoNext]_vars

Init == PushInit /\ DoIdle /\ BkIdle /\ SlIdle /\ RcIdle

Spec == Init /\ [][Next]_vars

FairSpec == Init /\ [][Next]_vars /\ Fairness

\* one run over five plans on a destination that answers every request; the
\* steps left out of PoolNext are never enabled for components without
\* group, tags and presets and without a failing request
PoolInit ==
  PushInitOn("begin", OptsMany, DestMany, MaxFaults) /\ DoIdle /\ BkIdle /\ SlIdle /\ RcIdle

PoolNext ==
  \/ RunBegin
  \/ \E k \in Lists : Fetch(k)
  \/ FetchWait
  \/ \E w \in Workers : Handoff(w)
  \/ ProducerClose
  \/ \E w \in Workers : WorkerClosed(w)
  \/ \E w \in Workers : Process(w)
  \/ \E w \in Workers : Whitelist(w)
  \/ \E w \in Workers : Component(w)
  \/ \E w \in Workers : Finish(w)
  \/ RunWait
  \/ RunReport

PoolSpec == PoolInit /\ [][PoolNext]_vars

LimiterInit == SlInit /\ DoIdle /\ BkIdle /\ PushIdle /\ RcIdle

LimiterSpec == LimiterInit /\ [][SlNext]_vars

CountersInit == RcInit /\ DoIdle /\ BkIdle /\ PushIdle /\ SlIdle

CountersSpec == CountersInit /\ [][RcNext]_vars

(***************************************************************************)
(* Properties of Client.do (checked under DoSpec).                         *)
(***************************************************************************)
Last(q) == q[Len(q)]
Is2xx(o) == o.type = "http" /\ o.status >= 200 /\ o.status < 300
Is429(o) == o.type = "http" /\ o.status = 429
Is5xx(o) == o.type = "http" /\ o.status >= 500
Is4xxNot429(o) == o.type = "http" /\ o.status >= 400 /\ o.status < 500 /\ o.status # 429
\* a 2xx response whose body do accepts
Accepted(o) == Is2xx(o) /\ ~(hasOut /\ o.body = "garbage")
RetriableFailure(o) == o.type = "transport" \/ Is429(o) \/ Is5xx(o)
\* the error attempt n yields for a failed outcome o
ErrorOf(o, n) ==
  IF o.type = "transport" THEN TransportErr(n)
  ELSE IF Is2xx(o) THEN DecodeErr(n)
  ELSE APIError(o.status, n)
Min(a, b) == IF a < b THEN a ELSE b
Max(a, b) == IF a > b THEN a ELSE b
RECURSIVE LoweredTimes(_, _)
LoweredTimes(r, k) == IF k = 0 THEN r ELSE LoweredTimes(Max(100, r - 20), k - 1)

\* C3: once an attempt of one create operation (a write whose response is
\* decoded) has received a 2xx response, no further request is sent for that
\* operation.
C3_NoRequestAfter2xx ==
  [][(isWrite /\ hasOut /\ \E i \in 1..Len(responses) : Is2xx(responses[i]))
       => sent' = sent]_vars

\* C5: when all five attempts fail retriably (transport failure, 429 or 5xx)
\* and the context is not cancelled, do has waited exactly four times, 250,
\* 500, 1000 and 2000 ms, and not after the last attempt.
C5_FourWaits ==
  (/\ doPc = "done"
   /\ ~ctxDone
   /\ Len(responses) = 5
   /\ \A i \in 1..5 : RetriableFailure(responses[i]))
  => waits = <<250, 500, 1000, 2000>>

\* C6: the step in which an attempt receives a 4xx response other than 429
\* returns that response's APIError, with no backoff wait, no change of the
\* retry counters and no change of any bucket rate; after the return nothing
\* more is sent.
C6_Terminal4xx ==
  [][/\ (doPc = "inflight" /\ Len(responses') = Len(responses) + 1
           /\ Is4xxNot429(Last(responses')))
        => /\ doPc' = "done"
           /\ doResult' = APIError(Last(responses').status, Len(responses'))
           /\ waits' = waits
           /\ sent' = sent
           /\ rps' = rps
           /\ <<Status429', Status5xx', Total'>> = <<Status429, Status5xx, Total>>
     /\ (doPc = "done" => (doPc' = "done" /\ sent' = sent /\ waits' = waits))
    ]_vars

C6_Witness ==
  /\ doPc = "done"
  /\ doResult = APIError(400, 3)
  /\ Status429 = 1
  /\ Status5xx = 1
  /\ Len(waits) = 2

\* C7: one call of do sends at most 5 requests; when the context is not
\* cancelled and all 5 attempts failed, do returns the error of the fifth.
C7_AtMostFiveLastError ==
  /\ sent <= 5
  /\ Len(responses) <= 5
  /\ (doPc = "done" /\ ~ctxDone /\ Len(responses) = 5 /\ ~Accepted(responses[5]))
       => doResult = ErrorOf(responses[5], 5)

C7_Witness ==
  /\ doPc = "done"
  /\ ~ctxDone
  /\ sent = 5
  /\ responses[1] = Http(500, "json")
  /\ responses[5] = Transport
  /\ doResult = TransportErr(5)

\* C8: k 429 responses (k < 5) followed by an accepted 2xx response: the
\* operation returns nil, Status429 and Total have grown by k, the
\* operation's bucket was lowered k times by 0.2 with floor 1 (and then
\* raised once by 0.02 up to 7 for the success), the other bucket is
\* untouched; and after every 429 of such a run the rate is already lowered.
C8_RateLimitedThenOk ==
  LET n == Len(responses)
      k == n - 1
      own == Kind(isWrite)
      other == Kind(~isWrite)
  IN  /\ (/\ doPc = "done"
          /\ n >= 1
          /\ Accepted(responses[n])
          /\ \A i \in 1..k : Is429(responses[i]))
         => /\ k < 5
            /\ doResult = NoErr
            /\ Status429 = k
            /\ Total = k
            /\ Status5xx = 0
            /\ rps[own] = Min(700, LoweredTimes(rps0[own], k) + 2)
            /\ rps[other] = rps0[other]
      /\ (\A i \in 1..n : Is429(responses[i]))
         => /\ Status429 = n
            /\ rps[own] = LoweredTimes(rps0[own], n)
            /\ rps[own] >= 100

C8_Witness ==
  /\ doPc = "done"
  /\ doResult = NoErr
  /\ Len(responses) = 4
  /\ \A i \in 1..3 : Is429(responses[i])
  /\ rps0[Kind(isWrite)] = 110
  /\ rps[Kind(isWrite)] = 102
  /\ Status429 = 3

(***************************************************************************)
(* Properties of the token bucket (checked under BucketSpec).              *)
(***************************************************************************)
SetMax(S) == CHOOSE x \in S : \A y \in S : y <= x
\* the largest rate the bucket had at some time in [a, b]
MaxRate(a, b) ==
  SetMax({rpsLog[i].r : i \in {j \in 1..Len(rpsLog) :
                                 /\ rpsLog[j].t <= b
                                 /\ (j = Len(rpsLog) \/ rpsLog[j + 1].t >= a)}})

\* C9: on a bucket created full, the first burst calls that return do so
\* without sleeping and no further call returns before time has passed;
\* after a return that leaves less than one token, the next return comes no
\* sooner than (1 - tokens)/rps later (rps the largest rate in between).
C9_BurstThenWait ==
  /\ \A i \in 1..Len(grants) : i <= Burst => ~grants[i].slept
  /\ now = 0 => Len(grants) <= Burst
  /\ \A i \in 1..(Len(grants) - 1) :
        grants[i].left < OneToken
        => (grants[i + 1].t - grants[i].t) * MaxRate(grants[i].t, grants[i + 1].t)
             >= OneToken - grants[i].left

C9_Witness ==
  /\ Len(grants) = Burst + 1
  /\ grants[Burst].t = 0
  /\ grants[Burst].left = 0
  /\ grants[Burst + 1].slept
  /\ nudges = 0

\* C10: the waits that return nil within any time interval of length T
\* number at most burst + R*T, R the largest rate during the interval.
C10_RateBound ==
  \A i \in 1..Len(grants) : \A j \in i..Len(grants) :
     (j - i + 1) * OneToken
       <= Burst * OneToken
            + MaxRate(grants[i].t, grants[j].t) * (grants[j].t - grants[i].t)

C10_Witness ==
  /\ Len(grants) = Burst + 1
  /\ grants[Burst + 1].t - grants[1].t = 147
  /\ nudges = 1

\* the step is the start of a wait call, or the end of a caller's sleep
StartsOrWakes == calls' # calls \/ \E c \in DOMAIN wPc : wPc[c] = "sleep" /\ wPc'[c] # "sleep"

\* C11: a wait whose context is cancelled before the call or while it sleeps
\* returns the context's error (the call ends, counted as cancelled) and
\* consumes no token; every wait that returns nil has taken exactly one
\* token from the refilled bucket, and tokens are taken by no other step.
C11_CancelledWaitTakesNothing ==
  [][/\ (bkCtxDone /\ StartsOrWakes) =>
          /\ canceled' = canceled + 1
          /\ \A c \in DOMAIN wPc : wPc'[c] # wPc[c] => wPc'[c] = "idle"
          /\ bkTokens' = bkTokens
          /\ grants' = grants
     /\ grants' # grants =>
          /\ Len(grants') = Len(grants) + 1
          /\ bkTokens' = refillLocked(Bucket, now).tokens - OneToken
          /\ bkTokens' >= 0
     /\ grants' = grants => bkTokens' >= bkTokens]_vars

\* the burst has been granted, a further call slept and was then cancelled
C11_Witness ==
  /\ bkCtxDone
  /\ canceled >= 1
  /\ Len(grants) = Burst
  /\ \A i \in 1..Len(grants) : ~grants[i].slept
  /\ \E c \in Callers : wPc[c] = "idle" /\ wSlept[c]

Creates == {e \in DOMAIN issued : e.op \in {"createGroup", "createTag"}}

\* the identifiers the ensure functions returned are one per name
SameIdentifier ==
  \A x \in ensured : \A y \in ensured :
    (x.kind = y.kind /\ x.key = y.key) => x.id = y.id

\* the names the snapshot of the destination does not have
AbsentAtStart(x) ==
  IF x.kind = "group" THEN x.key \notin DOMAIN SeedGroups(snap.groups, Len(snap.groups))
  ELSE x.key \notin DOMAIN SeedTags(snap.tags, Len(snap.tags))

CreateOf(x) == Req(IF x.kind = "group" THEN "createGroup" ELSE "createTag", x.key)

\* C1 as stated: for a group or tag name absent from the cache, exactly one
\* create request is issued during the run under every interleaving, and
\* every caller receives the same identifier.
C1_ExactlyOneCreate ==
  /\ \A e \in Creates : issued[e] <= 1
  /\ \A x \in ensured : AbsentAtStart(x) => BagCount(issued, CreateOf(x)) = 1
  /\ SameIdentifier

\* C1, amended: for every group or tag name, all create requests issued in
\* the run but at most one have failed (so at most one is in flight or
\* answered successfully, and a further one is only issued after every
\* earlier one failed); once a caller has been returned an identifier for a
\* name absent from the snapshot exactly one create request for the name has
\* not failed; and every caller that is returned an identifier for a name
\* is returned the same one.
C1_OneCreateNotFailed ==
  /\ \A e \in Creates : issued[e] - BagCount(failed, e) <= 1
  /\ \A x \in ensured :
       AbsentAtStart(x) => BagCount(issued, CreateOf(x)) - BagCount(failed, CreateOf(x)) = 1
  /\ SameIdentifier

\* a caller that joined a flight is handed the identifier of the one create
\* request issued for the group
C1_Witness ==
  \E w \in DOMAIN wk :
    /\ wk[w].pc = "gret"
    /\ wk[w].err = "nil"
    /\ wk[w].val # 0
    /\ BagCount(issued, Req("createGroup", GroupKey(w))) = 1
    /\ \E x \in ensured : x.kind = "group" /\ x.key = GroupKey(w) /\ x.id = wk[w].val

\* C2: within one run at most one create-component request is issued per
\* logical component, identified by its case-insensitive name.
C2_OneCreatePerComponent ==
  \A e \in DOMAIN issued : e.op = "createComponent" => issued[e] <= 1

\* no two component files of the desired set name the same logical component
DistinctNames ==
  \A i \in 1..Len(opts.comps) : \A j \in 1..Len(opts.comps) :
    i # j => ToLower(TrimSpace(opts.comps[i].name)) # ToLower(TrimSpace(opts.comps[j].name))

\* C4: a second successful run with the same desired set leaves the
\* destination as the first run left it (here for desired sets free of
\* duplicate names, which C2 covers).
C4_SecondRunChangesNothing ==
  (run = 2 /\ runPc = "returned" /\ runErr = "nil" /\ DistinctNames) => dest = after1

\* the place of a request in the sequence of its plan
OpRank(op) ==
  CASE op = "group" -> 1
    [] op = "tag" -> 2
    [] op = "component" -> 3
    [] op = "preset" -> 4
    [] op = "fixup" -> 5

Count(log, op) == Cardinality({i \in 1..Len(log) : log[i] = op})

NonBlankTags(c) == Cardinality({i \in 1..Len(c.tags) : TrimSpace(c.tags[i]) # ""})

\* C13: the requests of a plan are issued in the order group create, tag
\* creates, component create/update, preset creates/updates, default-preset
\* update; the component request is sent only when the group and every tag
\* of the plan are resolved, a preset request only after the component
\* request succeeded, the default-preset update only after every preset.
C13_RequestOrder ==
  \A w \in DOMAIN wk :
    wk[w].job # 0 =>
      LET r == wk[w]
          plan == plans[r.job]
          log == r.log
      IN  /\ \A i \in 1..Len(log) : \A j \in 1..Len(log) :
                i < j => OpRank(log[i]) <= OpRank(log[j])
          /\ Count(log, "group") <= 1
          /\ Count(log, "component") <= 1
          /\ Count(log, "fixup") <= 1
          /\ Count(log, "component") = 1 =>
                /\ ToLower(TrimSpace(plan.component.group)) # "" =>
                      (r.comp.uuid # 0 /\ r.comp.group = "")
                /\ Len(r.comp.ids) = NonBlankTags(plan.component)
          /\ Count(log, "preset") >= 1 => (Count(log, "component") = 1 /\ r.res.id # 0)
          /\ Count(log, "fixup") = 1 => Count(log, "preset") = Len(plan.presets)

\* a plan that sent all five kinds of request
C13_Witness ==
  \E w \in DOMAIN wk :
    /\ wk[w].pc = "finish"
    /\ wk[w].log = <<"group", "tag", "component", "preset", "fixup">>

(***************************************************************************)
(* Properties of the worker pool (checked under PoolSpec).                 *)
(***************************************************************************)
\* worker w is inside processor.Process
Processing(w) == wk[w].pc \notin {"select", "return", "exited"}

InProcess == {w \in DOMAIN wk : Processing(w)}

\* C14: in every state of a run with n plans at most min(4, n) plans are
\* being processed, each by a worker of its own.
C14_AtMostFourInProcess ==
  runPc = "work" =>
    /\ Cardinality(InProcess) <= Min(WorkerLimit, Len(plans))
    /\ \A v \in InProcess : \A w \in InProcess : wk[v].job = wk[w].job => v = w

\* five plans: four are being processed and the fifth waits for a worker
C14_Witness ==
  /\ runPc = "work"
  /\ Len(plans) = WorkerLimit + 1
  /\ Cardinality(InProcess) = WorkerLimit
  /\ nextJob = Len(plans)
  /\ ~jobsClosed

\* C15: a plan is handed to one worker, once: the producer hands plans out
\* in order, each handoff gives the next plan to one worker at its select,
\* a worker keeps its plan until Process has returned, no two workers hold
\* the same plan and an outcome is written once; when a run returns nil
\* every plan has been handed out and has its outcome.
C15_HandedOnceProcessedOnce ==
  /\ [](runPc = "work" =>
          /\ \A w \in DOMAIN wk : wk[w].job # 0 => wk[w].job < nextJob
          /\ \A v \in DOMAIN wk : \A w \in DOMAIN wk :
                (wk[v].job # 0 /\ wk[v].job = wk[w].job) => v = w
          /\ \A i \in DOMAIN outcomes :
                outcomes[i].name # "" =>
                  (i < nextJob /\ \A w \in DOMAIN wk : wk[w].job # i))
  /\ []((runPc = "returned" /\ runErr = "nil" /\ Len(plans) > 0) =>
          /\ nextJob = Len(plans) + 1
          /\ \A i \in DOMAIN outcomes : outcomes[i].name = plans[i].component.name
          /\ result.ComponentsSynced = Len(plans))
  /\ [][run' = run =>
          /\ nextJob' \in {nextJob, nextJob + 1}
          /\ nextJob' = nextJob + 1 =>
                \E w \in DOMAIN wk :
                  /\ wk[w].pc = "select"
                  /\ wk'[w].pc = "process"
                  /\ wk'[w].job = nextJob
                  /\ \A v \in DOMAIN wk \ {w} : wk'[v] = wk[v]
          /\ \A w \in DOMAIN wk \cap DOMAIN wk' :
                wk'[w].job # wk[w].job =>
                  \/ wk[w].job = 0 /\ wk'[w].job = nextJob /\ nextJob' = nextJob + 1
                  \/ wk[w].pc = "finish" /\ wk'[w].job = 0
          /\ \A i \in DOMAIN outcomes \cap DOMAIN outcomes' :
                outcomes[i].name # "" => outcomes'[i] = outcomes[i]]_vars

\* a run of two plans has returned nil, both plans synced
C15_Witness ==
  /\ runPc = "returned"
  /\ runErr = "nil"
  /\ Len(plans) = 2
  /\ nextJob = 3
  /\ result.ComponentsSynced = 2

Kinds4 == {"components", "groups", "presets", "tags"}

\* the identifier of a stored object
IdOf(k, x) == IF k = "groups" THEN x.uuid ELSE x.id

\* the stored objects stay, in their places
Kept(d, e) ==
  \A k \in Kinds4 :
    /\ Len(e[k]) >= Len(d[k])
    /\ \A i \in 1..Len(d[k]) : IdOf(k, e[k][i]) = IdOf(k, d[k][i])

\* C16 as stated: once Process has returned an error for a plan, a plan
\* that is started afterwards sends no request.
C16_NoRequestOfLatePlan ==
  \A w \in DOMAIN wk : wk[w].late => wk[w].log = <<>>

\* C16, amended: a worker that has returned an error has cancelled egCtx and
\* from then on no request is sent (a request in flight may be answered);
\* when a Process has failed, Run returns the first error the workers
\* returned, with ExitCode 2; no step removes an object the destination
\* stores, and only list, create and update requests are sent.
C16_FailureStopsRequests ==
  /\ [](\A w \in DOMAIN wk : (wk[w].pc = "exited" /\ wk[w].err # "nil") => egDone)
  /\ [][(egDone /\ runPc = "work") => issued' = issued]_vars
  /\ []((runPc = "returned" /\ ProcessFailed) =>
          /\ runErr = egErr
          /\ runErr \in {wk[w].err : w \in DOMAIN wk} \ {"nil"}
          /\ result.ExitCode = 2)
  /\ [][Kept(dest, dest')]_vars
  /\ [](\A e \in DOMAIN issued :
          e.op \in {"list", "createGroup", "createTag", "createComponent",
                    "updateComponent", "createPreset", "updatePreset"})

\* Run has returned the error of a failed Process with ExitCode 2; a plan
\* that was started after the failure was cancelled before any request
C16_Witness ==
  /\ runPc = "returned"
  /\ runErr = "api"
  /\ result.ExitCode = 2
  /\ \E w \in DOMAIN wk : wk[w].late /\ wk[w].err = "canceled" /\ wk[w].log = <<>>

\* the plans whose outcome a worker has stored
Synced == {i \in DOMAIN outcomes : outcomes[i].name # ""}

\* C17: when Run returns an error after some components were synced, the
\* Result it returns counts them and lists their names.
C17_FailedRunListsSynced ==
  (runPc = "returned" /\ runErr # "nil" /\ Synced # {}) =>
    /\ result.ComponentsSynced = Cardinality(Synced)
    /\ Len(result.CreatedComponents) + Len(result.UpdatedComponents) = Cardinality(Synced)
    /\ result.PresetsSynced = SumPresets(outcomes, Len(plans))

\* C18: a plan that was in process when the sequence of another plan failed
\* is not aborted: its Process does not return the cancellation.
C18_InFlightPlansComplete ==
  \A w \in DOMAIN wk :
    (wk[w].job # 0 /\ ~wk[w].late) => wk[w].err # "canceled"

\* the group names whose creation is in flight
InCreation == DOMAIN gFlight

\* the group names that mapSchemaGroupWhitelist looks up for worker w
WhitelistReads(w) ==
  {ToLower(TrimSpace(wk[w].comp.wl[i].n)) :
     i \in {j \in 1..Len(wk[w].comp.wl) : wk[w].comp.wl[j].u = 0 /\ wk[w].comp.wl[j].n # ""}}

\* C19: the whitelist rewriting of a worker does not read a group name from
\* the cache while the creation of that group is in flight: it waits until
\* the creation has published its result.
C19_ReadWaitsForCreation ==
  [][\A w \in DOMAIN wk \cap DOMAIN wk' :
       (wk[w].pc = "whitelist" /\ wk'[w].pc # "whitelist") =>
         WhitelistReads(w) \cap InCreation = {}]_vars

\* selector i of the Options matches component file j
Selects(i, j) ==
  matches(ToLower(opts.comps[j].name), ToLower(TrimSpace(opts.names[i])), ToLower(opts.mode))

UnmatchedIdx == {i \in 1..Len(opts.names) : \A j \in 1..Len(opts.comps) : ~Selects(i, j)}

MatchedIdx == {j \in 1..Len(opts.comps) : \E i \in 1..Len(opts.names) : Selects(i, j)}

\* selectors were given, some match nothing and some match a component
PartialMatch ==
  /\ ~opts.all
  /\ ValidateMode(opts.mode)
  /\ UnmatchedIdx # {}
  /\ MatchedIdx # {}

\* C20: with some selectors unmatched and some matched, Run goes on: the
\* matched components are selected and, when no request fails, synced and
\* Run returns nil; MissingSelectors is the unmatched selectors in input
\* order and ExitCode is 1.
C20_MissingSelectorsReported ==
  (PartialMatch /\ runPc \notin {"idle", "begin"}) =>
    /\ result.MissingSelectors = KeepIdx(opts.names, UnmatchedIdx, Len(opts.names))
    /\ selected = KeepIdx(opts.comps, MatchedIdx, Len(opts.comps))
    /\ (runPc = "returned" /\ faults = 0) =>
          /\ runErr = "nil"
          /\ result.ExitCode = 1
          /\ result.ComponentsSynced = Cardinality(MatchedIdx)
          /\ {opts.comps[j].name : j \in MatchedIdx} =
                {result.CreatedComponents[i] : i \in 1..Len(result.CreatedComponents)}
                  \cup {result.UpdatedComponents[i] : i \in 1..Len(result.UpdatedComponents)}

\* selectors nope, hero, none: Run has returned nil with both files that
\* hero matches synced and nope, none reported
C20_Witness ==
  /\ PartialMatch
  /\ runPc = "returned"
  /\ runErr = "nil"
  /\ result.MissingSelectors = <<"nope", "none">>
  /\ result.ExitCode = 1
  /\ result.ComponentsSynced = 2

(***************************************************************************)
(* Properties of the Result.                                               *)
(***************************************************************************)
RECURSIVE PlanPresets(_)
\* the presets of the first n plans
PlanPresets(n) == IF n = 0 THEN 0 ELSE PlanPresets(n - 1) + Len(plans[n].presets)

NamesOf(seq) == {seq[i] : i \in 1..Len(seq)}

\* C21: when a run with plans returns nil, CreatedComponents has one entry
\* per plan without a destination match, UpdatedComponents one per plan
\* with a match, ComponentsSynced is the number of plans and PresetsSynced
\* the number of presets of the plans.
C21_ResultCountsPlans ==
  (runPc = "returned" /\ runErr = "nil" /\ Len(plans) > 0) =>
    LET new == {i \in 1..Len(plans) : ~plans[i].exists}
        old == {i \in 1..Len(plans) : plans[i].exists}
    IN  /\ Len(result.CreatedComponents) = Cardinality(new)
        /\ Len(result.UpdatedComponents) = Cardinality(old)
        /\ NamesOf(result.CreatedComponents) = {plans[i].component.name : i \in new}
        /\ NamesOf(result.UpdatedComponents) = {plans[i].component.name : i \in old}
        /\ result.ComponentsSynced = Len(plans)
        /\ result.PresetsSynced = PlanPresets(Len(plans))

\* two new components, one of them with a preset, were created
C21_Witness ==
  /\ runPc = "returned"
  /\ runErr = "nil"
  /\ run = 1
  /\ result.CreatedComponents = <<"card", "hero">>
  /\ result.UpdatedComponents = <<>>
  /\ result.ComponentsSynced = 2
  /\ result.PresetsSynced = 1

\* the Options are rejected: the match mode is none of exact, prefix, glob,
\* or no name is given and all is not set
BadInput ==
  \/ ToLower(opts.mode) \notin {"exact", "prefix", "glob"}
  \/ ~opts.all /\ Len(opts.names) = 0

\* C22: with an invalid match mode, or without names and without all, Run
\* returns an error and no gateway call is ever started: no list fetch, no
\* request, nothing changed in the destination.
C22_InputErrorBeforeRequests ==
  BadInput =>
    /\ runPc \in {"begin", "returned"}
    /\ runPc = "returned" => (runErr \in {"mode", "nonames"} /\ result.ExitCode = 0)
    /\ \A k \in Lists : fetched[k] = "idle"
    /\ issued = EmptyMap
    /\ dest = after1
    /\ run = 1

\* Run has returned the error of the invalid match mode
C22_Witness ==
  /\ opts.mode = "regex"
  /\ runPc = "returned"
  /\ runErr = "mode"
  /\ issued = EmptyMap

\* one of the four list fetches of this run has returned an error
FetchFailed == \E k \in Lists : fetched[k] = "failed"

\* C23: a list fetch that returns an error cancels egCtx, and from then on
\* no list request is sent; Run returns the error of the failed fetch with
\* ExitCode 2, without plans, having sent list requests only and leaving
\* the destination as it was.
C23_FetchFailureIsFatal ==
  /\ []((runPc = "fetch" /\ FetchFailed) => (egDone /\ egErr # "nil"))
  /\ [][(runPc = "fetch" /\ egDone) => (issued' = issued /\ dest' = dest)]_vars
  /\ []((runPc = "returned" /\ FetchFailed) =>
          /\ runErr = "api"
          /\ result.ExitCode = 2
          /\ plans = <<>>
          /\ \A e \in DOMAIN issued : e.op = "list"
          /\ dest = after1)

\* Run has returned the error of a failed fetch; another fetch was cancelled
\* before its request
C23_Witness ==
  /\ runPc = "returned"
  /\ runErr = "api"
  /\ result.ExitCode = 2
  /\ \E k \in Lists : fetched[k] = "failed" /\ BagCount(issued, Req("list", k)) = 0

C25_DryRunOnlyLists ==
  opts.dry =>
    /\ plans = <<>>
    /\ DOMAIN wk = {}
    /\ \A e \in DOMAIN issued : e.op = "list" /\ issued[e] <= 1
    /\ dest = after1
    /\ (runPc = "returned" /\ runErr = "nil") =>
          /\ result.ComponentsSynced = Len(selected)
          /\ Len(selected) = Len(opts.comps)
          /\ result.PresetsSynced = Len(opts.presets)
          /\ result.CreatedComponents = <<>>
          /\ result.UpdatedComponents = <<>>
          /\ result.ExitCode = 0
          /\ \A k \in Lists : BagCount(issued, Req("list", k)) = 1

\* a dry run over two components, one with a preset, has returned nil
C25_Witness ==
  /\ opts.dry
  /\ runPc = "returned"
  /\ runErr = "nil"
  /\ result.ComponentsSynced = 2
  /\ result.PresetsSynced = 1
  /\ \A k \in Lists : BagCount(issued, Req("list", k)) = 1

\* C26: the exit code of the process classifies the outcome: 1 for invalid
\* input (invalid match mode, no selector) and for unmatched selectors, 2
\* for a failure of the destination, 0 otherwise; never 3 for any of these.
C26_ExitCodeClassifies ==
  runPc = "returned" =>
    ProcessExit = IF BadInput THEN ExitCodeInvalid
                  ELSE IF runErr = "api" THEN ExitCodeAPI
                  ELSE IF result.MissingSelectors # <<>> THEN ExitCodeInvalid
                  ELSE ExitCodeOK

(***************************************************************************)
(* Properties of the tags and of the whitelist.                            *)
(***************************************************************************)
\* the tags that ensureInternalTags has resolved in this run
TagsEnsured == {x \in ensured : x.kind = "tag"}

\* the create-tag requests of this run
TagCreates == {e \in DOMAIN issued : e.op = "createTag"}

\* C27: tag names that differ only in letter case resolve to the same tag
\* ID, and at most one create-tag request is issued for them in a run.
C27_TagsCaseInsensitive ==
  /\ \A x \in TagsEnsured : \A y \in TagsEnsured :
        ToLower(x.key) = ToLower(y.key) => x.id = y.id
  /\ \A e \in TagCreates : \A f \in TagCreates :
        ToLower(e.key) = ToLower(f.key) => (e = f /\ issued[e] <= 1)

\* the create request for the name of x
CreateReq(x) == Req(IF x.kind = "group" THEN "createGroup" ELSE "createTag", x.key)

\* C28: when ensureComponentGroup or ensureInternalTags has returned an
\* identifier for a name to a caller, creator or waiter, the cache maps the
\* name to that identifier, and no create request for the name is sent
\* afterwards in the run.
C28_EnsuredIsCached ==
  /\ [](\A x \in ensured :
          /\ x.id # 0
          /\ IF x.kind = "group"
             THEN groupCacheLookup(groups, x.key) = [value |-> x.id, ok |-> TRUE]
             ELSE tagCacheGet(tags, x.key) = [value |-> x.id, ok |-> TRUE])
  /\ [][run' = run =>
          \A x \in ensured : BagCount(issued', CreateReq(x)) = BagCount(issued, CreateReq(x))]_vars

\* a caller that joined the creation of its group has got the UUID, which
\* the cache holds, and a tag was created and cached
C28_Witness ==
  /\ \E w \in DOMAIN wk :
        /\ wk[w].pc = "whitelist"
        /\ wk[w].val # 0
        /\ wk[w].comp.uuid = wk[w].val
        /\ \E x \in ensured : x.kind = "group" /\ x.job = wk[w].job /\ x.id = wk[w].val
        /\ BagCount(issued, Req("createGroup", "layout")) = 1
  /\ \E x \in ensured : x.kind = "tag"

\* worker w is past ensureInternalTags
TagsDone(w) == wk[w].pc \in {"component", "presets", "fixup", "finish"}

\* the non-blank names of internal_tags_list, trimmed, in input order
TagNames(c) ==
  LET kept == KeepIdx(c.tags, {i \in 1..Len(c.tags) : TrimSpace(c.tags[i]) # ""},
                      Len(c.tags))
  IN  [i \in 1..Len(kept) |-> TrimSpace(kept[i])]

\* C29: ensureInternalTags returns one ID per non-blank name, in the order
\* of the names, and each ID is the ID of the destination's tag of that
\* name.
C29_TagIdsInOrder ==
  \A w \in DOMAIN wk :
    TagsDone(w) =>
      LET names == TagNames(plans[wk[w].job].component)
          ids == wk[w].comp.ids
      IN  /\ Len(ids) = Len(names)
          /\ \A i \in 1..Len(names) :
                \E j \in 1..Len(dest.tags) :
                  dest.tags[j].name = names[i] /\ dest.tags[j].id = ids[i]

\* the names T1, blank, t1, t1 were resolved to three IDs, the last two
\* the same
C29_Witness ==
  \E w \in DOMAIN wk :
    /\ wk[w].pc = "component"
    /\ plans[wk[w].job].component.tags = <<"T1", " ", "t1", "t1">>
    /\ Len(wk[w].comp.ids) = 3
    /\ wk[w].comp.ids[2] = wk[w].comp.ids[3]
    /\ wk[w].comp.ids[1] # wk[w].comp.ids[2]

\* the step of worker w that rewrites the whitelist of its component
WhitelistStep(w) == wk[w].pc = "whitelist" /\ wk'[w].pc # "whitelist"

\* C30: mapSchemaGroupWhitelist returns no error and rewrites the whitelist
\* entry by entry: a name of the group cache becomes its UUID, any other
\* entry stays as it is, and the entries keep their number and order.
C30_WhitelistPositional ==
  [][\A w \in DOMAIN wk \cap DOMAIN wk' :
       WhitelistStep(w) =>
         LET old == wk[w].comp.wl
             new == wk'[w].comp.wl
         IN  /\ wk'[w].err = wk[w].err
             /\ Len(new) = Len(old)
             /\ \A i \in 1..Len(old) :
                   LET hit == groupCacheLookup(groups, old[i].n)
                   IN  new[i] = IF old[i].u = 0 /\ hit.ok
                                THEN [n |-> "", u |-> hit.value]
                                ELSE old[i]]_vars

(***************************************************************************)
(* Properties of the plans and of the component and preset requests.       *)
(***************************************************************************)
\* the snapshot has a component whose name is n but for the case of letters
InSnapshotFold(n) ==
  \E j \in 1..Len(snap.components) : EqualFold(snap.components[j].name, n)

\* the snapshot has a component whose name is n but for the case of letters
\* and white space around it
InSnapshotKey(n) ==
  /\ ToLower(TrimSpace(n)) # ""
  /\ \E j \in 1..Len(snap.components) :
        ToLower(TrimSpace(snap.components[j].name)) = ToLower(TrimSpace(n))

\* the plans are built while the run has sent list requests only, and stay
\* as built while the workers run
PlansFixed ==
  /\ plans' # plans => \A e \in DOMAIN issued' : e.op = "list"
  /\ runPc = "work" => plans' = plans

\* the first request of worker w for its component is a create for a create
\* plan and an update for an update plan
FirstRequestAsPlanned ==
  \A w \in DOMAIN wk \cap DOMAIN wk' :
    (wk[w].pc = "component" /\ Len(wk'[w].log) > Len(wk[w].log)) =>
      LET op == IF plans[wk[w].job].exists THEN "updateComponent" ELSE "createComponent"
          e == Req(op, ComponentKey(w))
      IN  BagCount(issued', e) = BagCount(issued, e) + 1

\* C31 as stated: a plan is an update exactly when the snapshot has a
\* component whose name equals the desired name case-insensitively; the
\* plans are fixed before the first write request and never revised.
C31_UpdateIffEqualFold ==
  /\ [](\A i \in 1..Len(plans) :
          plans[i].exists <=> InSnapshotFold(plans[i].component.name))
  /\ [][PlansFixed /\ FirstRequestAsPlanned]_vars

\* C31, amended: a plan is an update exactly when the snapshot has a
\* component whose name equals the desired name after both are trimmed of
\* surrounding white space and lower-cased, and that name is not blank;
\* the plans are fixed before the first write request and never revised.
C31_UpdateIffSameKey ==
  /\ [](\A i \in 1..Len(plans) :
          /\ plans[i].exists <=> InSnapshotKey(plans[i].component.name)
          /\ plans[i].exists =>
                ToLower(TrimSpace(plans[i].existing.name))
                  = ToLower(TrimSpace(plans[i].component.name)))
  /\ [][PlansFixed /\ FirstRequestAsPlanned]_vars

\* the desired component "card " is planned as an update of the component
\* card of the destination, and its update request has been sent
C31_Witness ==
  /\ runPc = "work"
  /\ run = 1
  /\ Len(plans) = 1
  /\ plans[1].exists
  /\ plans[1].component.name = "card "
  /\ plans[1].existing.name = "card"
  /\ BagCount(issued, Req("updateComponent", "card")) = 1

\* the least element of a non-empty set of numbers
Least(S) == CHOOSE i \in S : \A j \in S : i <= j

\* the desired presets of the plan that the component's preset_id names
DefaultIdx(plan) ==
  {i \in 1..Len(plan.presets) : plan.presets[i].id = plan.component.preset}

\* the component declares a default preset that is one of its presets
Declares(plan) == plan.component.preset # 0 /\ DefaultIdx(plan) # {}

\* the remote ID that the first desired preset of the default preset's
\* case-insensitive name was written to, for a worker record r that has
\* sent all preset requests
DefaultRemote(r, plan) ==
  LET name == ToLower(plan.presets[Least(DefaultIdx(plan))].name)
      first == Least({i \in 1..Len(plan.presets) : ToLower(plan.presets[i].name) = name})
  IN  r.pw[first].id

\* the component of the destination d with identifier id
ComponentById(d, id) ==
  d.components[CHOOSE i \in 1..Len(d.components) : d.components[i].id = id]

\* the identifier of the component that the plan of worker record r writes
TargetId(r, plan) == IF plan.exists THEN plan.existing.id ELSE r.res.id

\* C32: the first request of a component carries preset_id 0.  After all
\* preset requests a second update is sent exactly when the component
\* declares a default preset among its own presets and, for an update plan,
\* the remote ID of that preset differs from the preset_id the component
\* had in the snapshot; it carries the remote ID of the first preset of
\* that case-insensitive name.
C32_DefaultPresetUpdate ==
  [][\A w \in DOMAIN wk \cap DOMAIN wk' :
       LET r == wk[w]
           r2 == wk'[w]
           plan == plans[r.job]
       IN  /\ (r.pc = "component" /\ r2.pc \in {"presets", "fixup", "finish"}) =>
                 /\ r2.comp.preset = 0
                 /\ ComponentById(dest', TargetId(r2, plan)).preset =
                      IF plan.exists
                      THEN ComponentById(dest, plan.existing.id).preset
                      ELSE 0
           /\ (r.pc \in {"component", "presets"} /\ r2.pc \in {"fixup", "finish"}) =>
                 /\ Len(r2.pw) = Len(plan.presets)
                 /\ plan.exists =>
                      \E j \in 1..Len(snap.components) :
                        /\ snap.components[j].id = plan.existing.id
                        /\ snap.components[j].preset = plan.existing.preset
                 /\ r2.pc = "fixup" <=>
                      /\ Declares(plan)
                      /\ plan.exists => DefaultRemote(r2, plan) # plan.existing.preset
           /\ (r.pc = "fixup" /\ r2.pc = "finish") =>
                 /\ BagCount(issued', Req("updateComponent", ComponentKey(w)))
                      = BagCount(issued, Req("updateComponent", ComponentKey(w))) + 1
                 /\ ComponentById(dest', TargetId(r, plan)).preset = DefaultRemote(r, plan)
                 /\ r2.res.preset = DefaultRemote(r, plan)]_vars

\* the component card of the destination was updated, its preset dark was
\* updated, and the second update has set preset_id to that preset
C32_Witness ==
  \E w \in DOMAIN wk :
    /\ wk[w].pc = "finish"
    /\ plans[wk[w].job].exists
    /\ wk[w].log = <<"component", "preset", "preset", "preset", "fixup">>
    /\ wk[w].pw[1] = [op |-> "updatePreset", id |-> 3]
    /\ ComponentById(dest, 2).preset = 3

\* the presets of the snapshot that belong to the component with identifier
\* cid and have the name n but for the case of letters
SnapshotPresets(cid, n) ==
  {j \in 1..Len(snap.presets) :
     snap.presets[j].cid = cid /\ EqualFold(snap.presets[j].name, n)}

\* the preset with identifier id as the destination has it
PresetById(d, id) == d.presets[CHOOSE i \in 1..Len(d.presets) : d.presets[i].id = id]

\* C33: the preset requests of a plan are one per desired preset, in order.
\* For an update plan the request is an update of the destination preset
\* of the same component and the same case-insensitive name if the snapshot
\* or an earlier preset of the sequence has one, and a create otherwise;
\* for a create plan it is a create.  A plan that is through its presets
\* has sent one request for each.
C33_OneRequestPerPreset ==
  \A w \in DOMAIN wk :
    wk[w].job # 0 =>
      LET r == wk[w]
          plan == plans[r.job]
          cid == TargetId(r, plan)
      IN  /\ Len(r.pw) <= Len(plan.presets)
          /\ Count(r.log, "preset") \in {Len(r.pw), Len(r.pw) + 1}
          /\ Count(r.log, "preset") = Len(r.pw) + 1 => r.err # "nil"
          /\ r.pc \in {"fixup", "finish"} => Len(r.pw) = Len(plan.presets)
          /\ \A i \in 1..Len(r.pw) :
                LET name == plan.presets[i].name
                    inSnap == IF plan.exists THEN SnapshotPresets(cid, name) ELSE {}
                    earlier == IF plan.exists
                               THEN {h \in 1..(i - 1) : EqualFold(plan.presets[h].name, name)}
                               ELSE {}
                    old == {snap.presets[j].id : j \in 1..Len(snap.presets)}
                IN  /\ PresetById(dest, r.pw[i].id).cid = cid
                    /\ EqualFold(PresetById(dest, r.pw[i].id).name, name)
                    /\ IF earlier # {}
                       THEN r.pw[i] = [op |-> "updatePreset", id |-> r.pw[Least(earlier)].id]
                       ELSE IF inSnap # {}
                       THEN /\ r.pw[i].op = "updatePreset"
                            /\ r.pw[i].id \in {snap.presets[j].id : j \in inSnap}
                       ELSE /\ r.pw[i].op = "createPreset"
                            /\ r.pw[i].id \notin old

\* an update plan has updated a preset of the snapshot, created one that
\* the snapshot did not have, and updated the one it had just created
C33_Witness ==
  \E w \in DOMAIN wk :
    /\ wk[w].job # 0
    /\ plans[wk[w].job].exists
    /\ wk[w].pw = <<[op |-> "updatePreset", id |-> 3], [op |-> "createPreset", id |-> 7],
                    [op |-> "updatePreset", id |-> 7]>>

\* the step in which Process of worker w returns its outcome
FinishStep(w) == wk[w].pc = "finish" /\ wk'[w].pc # "finish"

\* the step in which Process of worker w returns an error
FailStep(w) == wk[w].pc # "return" /\ wk'[w].pc = "return"

\* the key of the component cache for a name
CacheKey(name) == ToLower(TrimSpace(name))

\* what every successful and every failed Process does to the component
\* cache: the key of the resulting name maps to the component returned by
\* the last create or update, no entry keeps an older copy of that
\* component, every other entry is as it was; a failed Process changes
\* nothing, and during the work nothing else writes the cache
CacheFollowsProcess ==
  /\ \A w \in DOMAIN wk \cap DOMAIN wk' :
        /\ FinishStep(w) =>
              LET plan == plans[wk[w].job]
                  res == wk[w].res
                  key == CacheKey(res.name)
              IN  /\ res.id = TargetId(wk[w], plan)
                  /\ res.name = plan.component.name
                  /\ key \in DOMAIN components'
                  /\ components'[key] = res
                  /\ \A k \in DOMAIN components' :
                        components'[k].id = res.id => components'[k] = res
                  /\ \A k \in (DOMAIN components \cup DOMAIN components') \ {key} :
                        /\ k \in DOMAIN components
                        /\ k \in DOMAIN components' <=> k # CacheKey(plan.existing.name)
                        /\ k \in DOMAIN components' => components'[k] = components[k]
        /\ FailStep(w) => components' = components
  /\ (runPc = "work" /\ components' # components) =>
        \E w \in DOMAIN wk \cap DOMAIN wk' : FinishStep(w)

\* an update has changed the name of the component
Renamed(w) ==
  plans[wk[w].job].exists /\ wk[w].res.name # plans[wk[w].job].existing.name

\* C34 as stated: after a successful Process the component cache maps the
\* normalized resulting name to the component returned; when an update
\* changed the name, the key of the old name is no longer in the cache; a
\* failed Process leaves the cache unchanged.
C34_OldKeyGone ==
  [][/\ CacheFollowsProcess
     /\ \A w \in DOMAIN wk \cap DOMAIN wk' :
          (FinishStep(w) /\ Renamed(w)) =>
            CacheKey(plans[wk[w].job].existing.name) \notin DOMAIN components']_vars

\* C34, amended: after a successful Process the component cache maps the
\* normalized resulting name to the component returned; when an update
\* changed the name, the key of the old name is no longer in the cache
\* unless it is also the key of the new name, and then it maps to the
\* component returned; a failed Process leaves the cache unchanged.
C34_CacheHoldsResult ==
  [][/\ CacheFollowsProcess
     /\ \A w \in DOMAIN wk \cap DOMAIN wk' :
          (FinishStep(w) /\ Renamed(w)) =>
            LET oldKey == CacheKey(plans[wk[w].job].existing.name)
            IN  IF oldKey = CacheKey(wk[w].res.name)
                THEN components'[oldKey] = wk[w].res
                ELSE oldKey \notin DOMAIN components']_vars

\* the update of card to "card " has returned: the cache holds the renamed
\* component under the key card
C34_Witness ==
  /\ runPc = "work"
  /\ Len(plans) = 1
  /\ plans[1].existing.name = "card"
  /\ outcomes[1].updated
  /\ outcomes[1].name = "card "
  /\ "card" \in DOMAIN components
  /\ components["card"].name = "card "
  /\ components["card"].preset = 3

(***************************************************************************)
(* Properties of the gateway's tokens and counters (checked under DoSpec). *)
(***************************************************************************)
\* the calls of httpClient.Do so far: those answered and the one in flight
Attempts == Len(responses) + (IF doPc = "inflight" THEN 1 ELSE 0)

\* C35: every HTTP attempt of do follows one token acquisition of its own,
\* from the write bucket for the create, update and delete operations and
\* from the read bucket for the list and get operations; no token of the
\* other bucket is taken and no attempt is made without a token.
C35_TokenPerAttempt ==
  /\ \A op \in Operations :
        requestArgs(op).isWrite <=> requestArgs(op).method \in {"POST", "PUT", "DELETE"}
  /\ acquired[IF isWrite THEN "write" ELSE "read"]
        = Attempts + (IF doPc = "send" THEN 1 ELSE 0)
  /\ acquired[IF isWrite THEN "read" ELSE "write"] = 0
  /\ sent <= Attempts

\* the third attempt of a write operation is in flight, after three tokens
\* of the write bucket
C35_Witness ==
  /\ doPc = "inflight"
  /\ isWrite
  /\ Len(responses) = 2
  /\ sent = 3
  /\ acquired = [k \in Kinds |-> IF k = "write" THEN 3 ELSE 0]

(***************************************************************************)
(* Properties of the buckets (checked under BucketSpec).                   *)
(***************************************************************************)
\* C36: the tokens of the bucket are never below 0 and never above burst,
\* whatever the interleaving of the callers' waits, the refills they
\* compute, the nudges and the passing of time.
C36_TokensWithinBurst ==
  /\ 0 <= bkTokens
  /\ bkTokens <= Burst * OneToken

\* a refill of 284 ms on a bucket that held one token less than burst was
\* capped at burst, and the next wait took the last token
C36_Witness ==
  /\ Len(grants) = 3
  /\ grants[1] = [t |-> 0, slept |-> FALSE, left |-> (Burst - 1) * OneToken]
  /\ grants[2] = [t |-> 284, slept |-> FALSE, left |-> (Burst - 1) * OneToken]
  /\ (284 * DefaultRPS) + (Burst - 1) * OneToken > Burst * OneToken
  /\ bkTokens = (Burst - 2) * OneToken

(***************************************************************************)
(* Properties of the SpaceLimiter (checked under LimiterSpec).             *)
(***************************************************************************)
\* the buckets that newBucket has made for the space id and the kind k
MadeFor(id, k) == {i \in 1..Len(made) : made[i] = [space |-> id, kind |-> k]}

\* the step is taken by caller c inside wait or nudge
ActsOnBucket(c) == slPc[c].pc \in {"lock", "nudge"} /\ slPc'[c] # slPc[c]

\* C37: for every space one read bucket and one write bucket are made, at
\* its first use, and never another, also when callers use the space for
\* the first time at once; the map keeps them; and a bucket changes only
\* in a step of a wait or a nudge on that very bucket, so that a wait or
\* nudge leaves every other bucket as it is.
C37_OnePairPerSpace ==
  /\ [](\A id \in Spaces : \A k \in Kinds :
          IF id \in DOMAIN spaces
          THEN MadeFor(id, k) = {spaces[id][k]}
          ELSE MadeFor(id, k) = {})
  /\ [](\A c \in DOMAIN slPc :
          slPc[c].pc # "idle" => slPc[c].b = spaces[slPc[c].space][slPc[c].kind])
  /\ [][/\ \A id \in DOMAIN spaces : id \in DOMAIN spaces' /\ spaces'[id] = spaces[id]
        /\ \A i \in 1..Len(buckets) :
             /\ i <= Len(buckets')
             /\ buckets'[i] # buckets[i] =>
                  \E c \in DOMAIN slPc : ActsOnBucket(c) /\ slPc[c].b = i]_vars

\* two callers used space 1 for the first time at once, one waiting for a
\* read token and one nudging the write bucket; both have acted, each on
\* its bucket, and the buckets of space 2 are as they were made
C37_Witness ==
  /\ Len(made) = 4
  /\ 1 \in DOMAIN spaces
  /\ 2 \in DOMAIN spaces
  /\ buckets[spaces[1].read] =
       [newBucket(DefaultRPS, Burst * OneToken, 0) EXCEPT !.tokens = @ - OneToken]
  /\ buckets[spaces[1].write] =
       [newBucket(DefaultRPS, Burst * OneToken, 0) EXCEPT !.rps = DefaultRPS + NudgeDown]
  /\ buckets[spaces[2].read] = newBucket(DefaultRPS, Burst * OneToken, 0)
  /\ buckets[spaces[2].write] = newBucket(DefaultRPS, Burst * OneToken, 0)
  /\ \E c \in DOMAIN slPc : slPc[c].pc = "lock" /\ slPc[c].space = 2


(***************************************************************************)
(* C38: RetryCounters against the responses received.                      *)
(***************************************************************************)
Inside(pc) == Cardinality({w \in RcWorkers : rcPc[w].pc = pc})

\* C38 (as stated): in every reachable state Total = Status429 + Status5xx,
\* Status429 is the number of 429 responses received so far and Status5xx the
\* number of responses with a status of 500 or more
C38_CountersExact ==
  /\ Total = Status429 + Status5xx
  /\ Status429 = rcSeen.s429
  /\ Status5xx = rcSeen.s5xx

\* C38: each counter trails what it counts by the operations that are inside
\* the addition to it: Status429 by those before Status429.Add, Status5xx by
\* those before Status5xx.Add, and Total trails Status429 + Status5xx by those
\* between the two additions of a Record call; with no operation inside a
\* Record call the three equalities hold, the response to a final attempt
\* included
C38_CountersSettle ==
  /\ Status429 + Inside("add429") = rcSeen.s429
  /\ Status5xx + Inside("add5xx") = rcSeen.s5xx
  /\ Total + Inside("addTotal") = Status429 + Status5xx

\* an operation has recorded the 429 of its last attempt, the other one a 500,
\* and nothing is inside a Record call
C38_Witness ==
  /\ \E w \in RcWorkers :
       /\ rcPc[w].pc = "idle"
       /\ rcPc[w].attempt = MaxRetries - 1
       /\ rcPc[w].status = 429
  /\ \A w \in RcWorkers : rcPc[w].pc \in {"idle", "send", "backoff"}
  /\ rcSeen.s5xx > 0
  /\ Status429 = rcSeen.s429
  /\ Status429 >= MaxRetries
  /\ Total = Status429 + Status5xx


(***************************************************************************)
(* C39: push.Run terminates.                                               *)
(***************************************************************************)
\* Run has returned and nothing of it is left running: the list goroutines
\* and the workers have returned, the producer has closed jobs, and no
\* single-flight call is open
Finished ==
  /\ runPc = "returned"
  /\ \A k \in Lists : fetched[k] \in {"idle", "ok", "failed"}
  /\ \A w \in DOMAIN wk : wk[w].pc = "exited"
  /\ DOMAIN wk # {} => jobsClosed
  /\ DOMAIN gFlight = {}
  /\ DOMAIN tFlight = {}

\* C39: under fair scheduling, with every request answered, every run that
\* is started ends with Run returned, nil or an error, and with the producer,
\* all workers and all single-flight callers finished
C39_RunTerminates == (runPc # "returned") ~> Finished

\* a failed run has ended: the producer stopped before it had offered every
\* plan, and a worker that was cancelled has returned
C39_Witness ==
  /\ Finished
  /\ runErr = "api"
  /\ nextJob <= Len(plans)
  /\ \E w \in DOMAIN wk : wk[w].err = "canceled"


(***************************************************************************)
(* C40: push.Run deletes nothing and leaves alone what no file names.      *)
(***************************************************************************)
\* the operations push.Run sends: the four lists, creates and updates
PushOperations ==
  {"list", "createGroup", "createTag", "createComponent", "updateComponent",
   "createPreset", "updatePreset"}

\* the destination component c is named by a selected component file
DesiredComponent(c) ==
  \E i \in 1..Len(selected) : CacheKey(selected[i].name) = CacheKey(c.name)

\* the destination preset p is named by a preset file of a selected component
\* that matches the component p belongs to
DesiredPreset(p) ==
  \E i \in 1..Len(selected) :
    /\ \E j \in 1..Len(after1.components) :
         /\ after1.components[j].id = p.cid
         /\ CacheKey(after1.components[j].name) = CacheKey(selected[i].name)
    /\ LET own == presetsForComponent(selected[i], opts.presets)
       IN  \E k \in 1..Len(own) : EqualFold(own[k].name, p.name)

\* the list after begins with the entries of the list before, except where
\* touch allows a change
KeptExcept(before, after, touch(_)) ==
  /\ Len(after) >= Len(before)
  /\ \A i \in 1..Len(before) : ~touch(before[i]) => after[i] = before[i]

Never(x) == FALSE

\* C40: no request of a run is a delete, and every group, every tag, every
\* component that no selected file names and every preset that no preset
\* file of a selected component names is at the destination as the run
\* found it, in every state of a run, failed or not
C40_NothingDeleted ==
  /\ \A r \in DOMAIN issued : r.op \in PushOperations
  /\ KeptExcept(after1.groups, dest.groups, Never)
  /\ KeptExcept(after1.tags, dest.tags, Never)
  /\ KeptExcept(after1.components, dest.components, DesiredComponent)
  /\ KeptExcept(after1.presets, dest.presets, DesiredPreset)

\* a run on a destination with a component, a preset, a group and a tag of
\* its own has returned after it changed the component and the preset that
\* the files name
C40_Witness ==
  /\ opts = OptsSpaced
  /\ run = 1
  /\ runPc = "returned"
  /\ runErr = "nil"
  /\ after1 = DestOld
  /\ ComponentById(dest, 2) # ComponentById(after1, 2)
  /\ PresetById(dest, 3) # PresetById(after1, 3)
  /\ ComponentById(dest, 1) = ComponentById(after1, 1)
  /\ PresetById(dest, 4) = PresetById(after1, 4)
  /\ Len(dest.presets) > Len(after1.presets)

=============================================================================
